---- MODULE Spec2Model ----
(***************************************************************************)
(* Peer-mesh voice chat of nightcord-webrtc: the in-band signaling         *)
(* strategy (VoiceRoomManagerSimple, src/voice-room-manager-simple.js).    *)
(* Every participant runs one manager; presence and signaling envelopes    *)
(* travel as chat messages that the chat server relays to the other room   *)
(* members, in order per sender.  RTCPeerConnection is modelled by its     *)
(* signaling state machine (JSEP): stable, have-local-offer,               *)
(* have-remote-offer, closed.                                              *)
(***************************************************************************)
EXTENDS Integers, Sequences, FiniteSets, TLC

Users == {"a", "b", "c"}

\* Lexicographic order of the user ids.
LexLess(x, y) == <<x, y>> \in {<<"a", "b">>, <<"a", "c">>, <<"b", "c">>}

NoPc == 0

\* this.username before the first joinVoiceChat: null.
NoName == "null"

\* Bounds of the model.
MaxGen == 2     \* RTCPeerConnection objects a participant creates per remote user
MaxCalls == 2   \* joinVoiceChat and toggleMute calls of all participants together
WideCalls == 3  \* the same, in the wider specification
MaxFails == 1   \* connection-state failures reported to all participants together
MaxCand == 1    \* ICE candidates gathered by all connection objects together
LateCand == 3   \* the same, in the late-join scenario
MaxDups == 1    \* chat messages the server relays a second time
MaxChats == 1   \* chat messages a manager receives that are not meant for it
MaxPjJoins == 3 \* joinVoiceChat calls of the two peer-id managers together
MaxDrops == 1   \* times a chat websocket closes and is connected again
MaxSocks == 3    \* WebSocket objects one WebSocketManager creates
MaxIceCalls == 3 \* createOffer and createAnswer calls on one WebRTCManager

Gens == 1..MaxGen

VARIABLES
  room,           \* the users whose managers listen on the chat room
  relayAll,       \* whether a signaling envelope is also delivered to the managers it is not addressed to
  wsOpen,         \* wsOpen[p]: wsManager.isConnected()
  inVoice,        \* inVoice[p]: this.inVoice
  localStream,    \* localStream[p]: this.localStream is not null
  liveStreams,    \* liveStreams[p]: captured streams of p whose tracks were never stopped
  isMuted,        \* isMuted[p]: this.isMuted
  trackEnabled,   \* trackEnabled[p]: track.enabled of the audio track of this.localStream
  joining,        \* joining[p]: joinVoiceChat calls awaiting getUserMedia
  username,       \* username[p]: this.username, and with it this.roomname (NoName: null)
  nameAtCall,     \* nameAtCall[p]: this.username when the oldest pending joinVoiceChat was called
  leftPending,    \* leftPending[p]: a joinVoiceChat is pending, and leaveVoiceChat was called after the last call of joinVoiceChat
  peers,          \* peers[p][u]: the connection object this.peers holds for u (NoPc: no entry)
  pcs,            \* pcs[p][u][g]: the g-th RTCPeerConnection p created for u
  remoteStreams,  \* remoteStreams[p][u]: this.remoteStreams has an entry for u
  conts,          \* conts[p][u]: continuations of p's handlers for u awaiting a connection operation, oldest first
  net,            \* net[s][r]: chat messages of s relayed to r and not yet received, oldest first
  emitted,        \* the events the last step published on its eventBus
  left,           \* what the environment may still do: left.calls user calls, left.fails failures, left.cands candidates
  nOffers,        \* nOffers[p][u]: offers p sent to u so far
  nAnswers,       \* nAnswers[p][u]: answers p sent to u so far
  lostCands,      \* lostCands[p][u]: candidates the connection in peers[p][u] rejected
  glared,         \* the pairs {p, u} that sent each other an offer before receiving the other's
  codec,          \* one presence envelope on its way through broadcastVoiceState and handleChatMessage
  broker,         \* one manager of the peer-id or the relay strategy connecting its signaling transport
  twin,           \* a manager of the in-band strategy and one of the relay strategy, given the same events
  pj,             \* two managers of the peer-id strategy, their chat messages and their calls
  ice,            \* ice[k]: the WebRTCManager for remote user k, creating offers and answers and waiting for ICE gathering
  wsm,            \* one WebSocketManager, the sockets it created and its reconnection timers
  compact         \* one session description on its way through _compactDescription

nameVars == <<username, nameAtCall>>
sessVars == <<inVoice, localStream, liveStreams, isMuted, trackEnabled, joining, nameVars,
              leftPending>>
linkVars == <<peers, pcs, remoteStreams, lostCands>>
sentVars == <<nOffers, nAnswers, glared>>
auxVars == <<codec, broker, twin, pj, ice, wsm, compact>>
vars == <<room, relayAll, wsOpen, sessVars, linkVars, conts, net, emitted, left, sentVars,
          auxVars>>

----------------------------------------------------------------------------
(* RTCPeerConnection *)

\* A connection object that was never constructed.
NonePc == [sig |-> "none", local |-> FALSE, remote |-> NoPc, tracks |-> FALSE,
           ncand |-> 0, cands |-> <<>>, unsent |-> FALSE]

\* new RTCPeerConnection(...), then addTrack for every track of localStream.
\* unsent is not a field of the object: it records that sendSignaling dropped
\* the offer or the answer of this connection.
NewPc(hasStream) == [sig |-> "stable", local |-> FALSE, remote |-> NoPc,
                     tracks |-> hasStream, ncand |-> 0, cands |-> <<>>, unsent |-> FALSE]

\* pc.close()
ClosedPc == [sig |-> "closed", local |-> FALSE, remote |-> NoPc, tracks |-> FALSE,
             ncand |-> 0, cands |-> <<>>, unsent |-> FALSE]

PcOpen(pc) == pc.sig \notin {"none", "closed"}

\* createOffer then setLocalDescription(offer) succeed in these states only.
CanSetLocalOfferAny(pc) == TRUE

CanSetLocalOffer(pc) == pc.sig \in {"stable", "have-local-offer"}

SetLocalOffer(pc) == [pc EXCEPT !.sig = "have-local-offer", !.local = TRUE]

\* setRemoteDescription(offer): in have-local-offer the browser either rolls the
\* local offer back (rollback = TRUE) or rejects with InvalidStateError.
CanSetRemoteOffer(pc, rollback) ==
  \/ pc.sig \in {"stable", "have-remote-offer"}
  \/ pc.sig = "have-local-offer" /\ rollback

SetRemoteOffer(pc, sdp) ==
  [pc EXCEPT !.sig = "have-remote-offer", !.remote = sdp,
             !.local = IF pc.sig = "have-local-offer" THEN FALSE ELSE @]

\* createAnswer then setLocalDescription(answer).
CanSetLocalAnswer(pc) == pc.sig = "have-remote-offer"

SetLocalAnswer(pc) == [pc EXCEPT !.sig = "stable", !.local = TRUE]

\* setRemoteDescription(answer).
CanSetRemoteAnswer(pc) == pc.sig = "have-local-offer"

SetRemoteAnswer(pc, sdp) == [pc EXCEPT !.sig = "stable", !.remote = sdp]

\* addIceCandidate rejects with InvalidStateError while remoteDescription is null.
CanAddIceCandidate(pc) == PcOpen(pc) /\ pc.remote # NoPc

Created(p, u) == Cardinality({g \in Gens : pcs[p][u][g].sig # "none"})

HasPeer(p, u) == peers[p][u] # NoPc

PeerPc(p, u) == pcs[p][u][peers[p][u]]

----------------------------------------------------------------------------
(* Messages and events *)

Ev(name, user) == [ev |-> name, user |-> user]

\* The presence envelope {username, inVoice, muted}.  why is not part of the
\* envelope: it records the call that sent it (join, leave or mute), or that
\* the message is a second copy of one that was delivered ("duplicate").
PresenceMsg(p, in, muted, why) ==
  [type |-> "presence", from |-> p, to |-> "*", inVoice |-> in, muted |-> muted,
   sdp |-> 0, tracks |-> FALSE, n |-> 0, why |-> why]

SigTypes == {"offer", "answer", "ice"}

\* A chat message without a voice tag.
ChatMsg(p) ==
  [type |-> "chat", from |-> p, to |-> "*", inVoice |-> FALSE, muted |-> FALSE,
   sdp |-> 0, tracks |-> FALSE, n |-> 0, why |-> "chat"]

SigMsg(type, p, u, sdp, tracks, n) ==
  [type |-> type, from |-> p, to |-> u, inVoice |-> FALSE, muted |-> FALSE,
   sdp |-> sdp, tracks |-> tracks, n |-> n, why |-> type]

\* wsManager.send: the chat server relays the message to the other room members.
\* A manager discards a signaling envelope addressed to another user
\* (HandleChatMessage); with relayAll = FALSE that delivery is left out.
WsSend(netv, p, msgs) ==
  [s \in Users |-> [r \in Users |->
     IF s = p /\ r \in room \ {p}
     THEN netv[s][r] \o SelectSeq(msgs, LAMBDA m : relayAll \/ m.to \in {"*", r})
     ELSE netv[s][r]]]

\* broadcastVoiceState(), as a list of chat messages, with the values the fields
\* have when it is called.
BroadcastVoiceState(p, in, muted, why) ==
  IF ~wsOpen[p] THEN <<>> ELSE <<PresenceMsg(p, in, muted, why)>>

\* sendSignaling(data), as a list of chat messages.
SendSignaling(p, m) == IF ~wsOpen[p] THEN <<>> ELSE <<m>>

Pop(netv, s, r) == [netv EXCEPT ![s][r] = Tail(@)]

\* An offer of s is on its way to r.
OfferInFlight(s, r) ==
  \E i \in 1..Len(net[s][r]) : net[s][r][i].type = "offer" /\ net[s][r][i].to = r

----------------------------------------------------------------------------
(* The presence envelope as text.  A text is a sequence of characters; a JSON *)
(* value is a record [t, s]: t is "str", "true", "false" or "null", and s the *)
(* characters of a string.                                                    *)

MaxName == 2    \* characters of a user name or a peer id

NameChars == {"a", "\"", "\\", "]", ","}

Texts(n) == UNION {[1..k -> NameChars] : k \in 0..n}

JStr(txt) == [t |-> "str", s |-> txt]
JLit(name) == [t |-> name, s |-> <<>>]
JBool(b) == IF b THEN JLit("true") ELSE JLit("false")

TagState == <<"[", "V", "O", "I", "C", "E", "_", "S", "T", "A", "T", "E", ":">>
TagPeer == <<"[", "V", "O", "I", "C", "E", "_", "P", "E", "E", "R", ":">>

KeyUsername == <<"u", "s", "e", "r", "n", "a", "m", "e">>
KeyInVoice == <<"i", "n", "V", "o", "i", "c", "e">>
KeyMuted == <<"m", "u", "t", "e", "d">>
KeyPeerId == <<"p", "e", "e", "r", "I", "d">>

LitText(name) ==
  CASE name = "true" -> <<"t", "r", "u", "e">>
    [] name = "false" -> <<"f", "a", "l", "s", "e">>
    [] name = "null" -> <<"n", "u", "l", "l">>

\* A string without the escaping of JSON.stringify.
EscapeNone(txt) == txt

\* JSON.stringify of the characters of a string: quote and backslash are escaped.
RECURSIVE Escape(_)
Escape(txt) ==
  IF txt = <<>> THEN <<>>
  ELSE (IF Head(txt) \in {"\"", "\\"} THEN <<"\\", Head(txt)>> ELSE <<Head(txt)>>)
         \o Escape(Tail(txt))

\* JSON.stringify of a string, a boolean or null.
StringifyValue(v) ==
  IF v.t = "str" THEN <<"\"">> \o Escape(v.s) \o <<"\"">> ELSE LitText(v.t)

\* JSON.stringify of an object given as its members <<key, value>> in order.
RECURSIVE StringifyMembers(_)
StringifyMembers(ms) ==
  IF ms = <<>> THEN <<>>
  ELSE <<"\"">> \o Head(ms)[1] \o <<"\"", ":">> \o StringifyValue(Head(ms)[2])
         \o (IF Len(ms) > 1 THEN <<",">> ELSE <<>>) \o StringifyMembers(Tail(ms))

Stringify(ms) == <<"{">> \o StringifyMembers(ms) \o <<"}">>

\* The members broadcastVoiceState puts in the envelope, per strategy.
EnvelopeMembers(strategy, env) ==
  <<<<KeyUsername, env.username>>, <<KeyInVoice, env.inVoice>>, <<KeyMuted, env.muted>>>>
    \o (IF strategy = "peerjs" THEN <<<<KeyPeerId, env.peerId>>>> ELSE <<>>)

Tag(strategy) == IF strategy = "peerjs" THEN TagPeer ELSE TagState

\* The chat message broadcastVoiceState builds.
EncodeEnvelope(strategy, env) ==
  Tag(strategy) \o Stringify(EnvelopeMembers(strategy, env)) \o <<"]">>

\* message.startsWith(tag)
StartsWith(txt, tag) == Len(txt) >= Len(tag) /\ SubSeq(txt, 1, Len(tag)) = tag

\* message.slice(from, -1): from is the count of characters left out in front.
SliceToLast(txt, from) == SubSeq(txt, from + 1, Len(txt) - 1)

\* JSON.parse of the characters of a string after its opening quote, from
\* position i; acc is what was read so far.
RECURSIVE ScanString(_, _, _)
ScanString(txt, i, acc) ==
  IF i > Len(txt) THEN [ok |-> FALSE, s |-> <<>>, next |-> 0]
  ELSE IF txt[i] = "\"" THEN [ok |-> TRUE, s |-> acc, next |-> i + 1]
  ELSE IF txt[i] = "\\"
       THEN IF i + 1 <= Len(txt) /\ txt[i + 1] \in {"\"", "\\", "/"}
            THEN ScanString(txt, i + 2, Append(acc, txt[i + 1]))
            ELSE [ok |-> FALSE, s |-> <<>>, next |-> 0]
  ELSE ScanString(txt, i + 1, Append(acc, txt[i]))

IsLitAt(txt, i, name) ==
  /\ i + Len(LitText(name)) - 1 <= Len(txt)
  /\ SubSeq(txt, i, i + Len(LitText(name)) - 1) = LitText(name)

JFail == [ok |-> FALSE, v |-> JLit("undefined"), next |-> 0]

\* JSON.parse of a string, a boolean or null at position i.
ParseValue(txt, i) ==
  IF i > Len(txt) THEN JFail
  ELSE IF txt[i] = "\""
       THEN LET r == ScanString(txt, i + 1, <<>>) IN
            IF r.ok THEN [ok |-> TRUE, v |-> JStr(r.s), next |-> r.next] ELSE JFail
  ELSE IF \E name \in {"true", "false", "null"} : IsLitAt(txt, i, name)
       THEN LET name == CHOOSE n \in {"true", "false", "null"} : IsLitAt(txt, i, n) IN
            [ok |-> TRUE, v |-> JLit(name), next |-> i + Len(LitText(name))]
  ELSE JFail

\* JSON.parse of the members of an object from position i, up to its brace.
RECURSIVE ParseMembers(_, _, _)
ParseMembers(txt, i, acc) ==
  LET k == ParseValue(txt, i) IN
  IF ~k.ok \/ k.v.t # "str" \/ k.next > Len(txt) \/ txt[k.next] # ":"
  THEN [ok |-> FALSE, ms |-> <<>>, next |-> 0]
  ELSE LET v == ParseValue(txt, k.next + 1)
           ms == Append(acc, <<k.v.s, v.v>>)
       IN IF ~v.ok \/ v.next > Len(txt) THEN [ok |-> FALSE, ms |-> <<>>, next |-> 0]
          ELSE IF txt[v.next] = "," THEN ParseMembers(txt, v.next + 1, ms)
          ELSE IF txt[v.next] = "}" THEN [ok |-> TRUE, ms |-> ms, next |-> v.next + 1]
          ELSE [ok |-> FALSE, ms |-> <<>>, next |-> 0]

\* JSON.parse(jsonStr) of an object text: its members, or a SyntaxError.
JsonParse(txt) ==
  IF Len(txt) < 2 \/ txt[1] # "{" THEN [ok |-> FALSE, ms |-> <<>>]
  ELSE IF txt[2] = "}" THEN [ok |-> Len(txt) = 2, ms |-> <<>>]
  ELSE LET r == ParseMembers(txt, 2, <<>>) IN
       [ok |-> r.ok /\ r.next = Len(txt) + 1, ms |-> IF r.ok THEN r.ms ELSE <<>>]

\* data.key of a parsed object: the last member of that key, or undefined.
Member(ms, key) ==
  LET at == {i \in 1..Len(ms) : ms[i][1] = key} IN
  IF at = {} THEN JLit("undefined")
  ELSE ms[CHOOSE i \in at : \A j \in at : j <= i][2]

\* handleChatMessage up to its call of handleVoiceState: the fields of the
\* envelope, or nothing when the tag is missing or JSON.parse throws.
DecodeEnvelope(strategy, msg) ==
  LET none == [ok |-> FALSE, env |-> [username |-> JLit("undefined"), inVoice |-> JLit("undefined"),
                                      muted |-> JLit("undefined"), peerId |-> JLit("undefined")]]
  IN IF ~StartsWith(msg, Tag(strategy)) THEN none
     ELSE LET r == JsonParse(SliceToLast(msg, Len(Tag(strategy)))) IN
          IF ~r.ok THEN none
          ELSE [ok |-> TRUE,
                env |-> [username |-> Member(r.ms, KeyUsername),
                         inVoice |-> Member(r.ms, KeyInVoice),
                         muted |-> Member(r.ms, KeyMuted),
                         peerId |-> Member(r.ms, KeyPeerId)]]

\* The envelopes a manager builds: the user name and the peer id are strings
\* or null, the flags are booleans.
Envelopes ==
  [username : {JStr(t) : t \in Texts(MaxName)} \cup {JLit("null")},
   inVoice : {JBool(b) : b \in BOOLEAN},
   muted : {JBool(b) : b \in BOOLEAN},
   peerId : {JStr(t) : t \in Texts(1)} \cup {JLit("null")}]

CodecIdle == [phase |-> "idle", strategy |-> "simple", env |-> <<>>, wire |-> <<>>, out |-> <<>>]

----------------------------------------------------------------------------
InitManagers ==
  /\ inVoice = [p \in Users |-> FALSE]
  /\ localStream = [p \in Users |-> FALSE]
  /\ liveStreams = [p \in Users |-> 0]
  /\ isMuted = [p \in Users |-> FALSE]
  /\ trackEnabled = [p \in Users |-> FALSE]
  /\ joining = [p \in Users |-> 0]
  /\ username = [p \in Users |-> NoName]
  /\ nameAtCall = [p \in Users |-> NoName]
  /\ leftPending = [p \in Users |-> FALSE]
  /\ peers = [p \in Users |-> [u \in Users |-> NoPc]]
  /\ pcs = [p \in Users |-> [u \in Users |-> [g \in Gens |-> NonePc]]]
  /\ remoteStreams = [p \in Users |-> [u \in Users |-> FALSE]]
  /\ conts = [p \in Users |-> [u \in Users |-> <<>>]]
  /\ net = [s \in Users |-> [r \in Users |-> <<>>]]
  /\ emitted = <<>>
  /\ nOffers = [p \in Users |-> [u \in Users |-> 0]]
  /\ nAnswers = [p \in Users |-> [u \in Users |-> 0]]
  /\ lostCands = [p \in Users |-> [u \in Users |-> {}]]
  /\ glared = {}

MaxJoins == 2    \* joinVoiceChat calls of the manager that connects its own transport
MaxErrors == 2   \* errors its transport reports

\* phase: idle, media (awaiting getUserMedia), connecting (awaiting the open of
\* the Peer or the socket), timer (the retry timeout is pending).  pending: the
\* promise of initializePeer or connectSignaling is not settled.  transport:
\* this.peer or this.socket is set.  joins, attempts and errors count the
\* joinVoiceChat calls, the Peer or socket objects created, and the errors.
BrokerIdle(strategy) ==
  [strategy |-> strategy, phase |-> "idle", pending |-> FALSE, inVoice |-> FALSE,
   localStream |-> FALSE, transport |-> FALSE, joins |-> 0, attempts |-> 0, errors |-> 0]

\* A freshly constructed manager of either strategy, as the fields the two
\* constructors share; named: this.username is set; socket: the relay socket
\* exists (the chat websocket of the in-band strategy always does).
TwinRemotes == {"b", "c"}

TwinManager(strategy) ==
  [inVoice |-> FALSE, isMuted |-> FALSE, localStream |-> FALSE, named |-> FALSE,
   socket |-> strategy = "simple",
   peers |-> [u \in TwinRemotes |-> NonePc],
   remoteStreams |-> [u \in TwinRemotes |-> FALSE],
   emitted |-> <<>>]

TwinIdle == [simple |-> TwinManager("simple"), socketio |-> TwinManager("socketio")]

\* Two freshly constructed managers of the peer-id strategy.  peerId 0 is
\* null; known is usernameToPeerId; calls[u] tells which MediaConnection the
\* calls map holds for u: the one the manager placed ("out"), the one it
\* answered ("in"), or none.
PjUsers == {"a", "b"}

NoCall == [st |-> "none", fromId |-> 0, toId |-> 0, callerGot |-> FALSE, calleeGot |-> FALSE]

PjManager ==
  [inVoice |-> FALSE, peerId |-> 0,
   known |-> [u \in PjUsers |-> 0],
   calls |-> [u \in PjUsers |-> "none"],
   remoteStreams |-> [u \in PjUsers |-> FALSE]]

PjIdle ==
  [mgr |-> [p \in PjUsers |-> PjManager],
   chat |-> [p \in PjUsers |-> <<>>],
   call |-> [p \in PjUsers |-> NoCall],
   ids |-> 0, joins |-> 0, emitted |-> <<>>]

\* A freshly constructed WebRTCManager for every remote user.  pc: this.peerConnection is not null;
\* gathering: its iceGatheringState; op: the createOffer or createAnswer call
\* in progress and phase where it stands; settled, timer, listener: the
\* variables of the promise of _waitForIceGatheringComplete; resolved: how many
\* times its resolve was called; conn: the connectionState of the connection;
\* threw: a callback of the manager raised an error.
IceLinks == {"b", "c"}

IceManager ==
  [pc |-> TRUE, gathering |-> "new", op |-> "none", phase |-> "idle",
   settled |-> FALSE, timer |-> FALSE, listener |-> FALSE, resolved |-> 0, calls |-> 0,
   conn |-> "new", threw |-> FALSE]

IceIdle == [k \in IceLinks |-> IceManager]

\* A WebSocket that was not created yet.  st: "none", or its readyState;
\* closeDue: its close event is still to fire; rejoins: how many times its
\* close and error listeners ran rejoin() past the rejoined check.
NoSock == [st |-> "none", closeDue |-> FALSE, rejoins |-> 0]

\* A freshly constructed WebSocketManager.  ws: the socket this.ws refers to
\* (0: null); fresh: less than reconnectDelay has passed since startTime;
\* timers: the rejoin() calls waiting for the reconnect delay.
WsmIdle ==
  [socks |-> [i \in 1..MaxSocks |-> NoSock], ws |-> 0, rejoined |-> FALSE,
   shouldReconnect |-> TRUE, fresh |-> FALSE, timers |-> 0]

\* No description (the result before _compactDescription has returned)
NoDesc == [type |-> "none", sdp |-> <<>>]

\* phase: where the call of _compactDescription stands; desc: its argument;
\* maxCandidates: this.maxCandidates; lines: the array between split, filter
\* and join; result: the description returned.
CompactIdle ==
  [phase |-> "idle", desc |-> NoDesc, maxCandidates |-> 0, lines |-> <<>>, result |-> NoDesc]

Init0 ==
  /\ InitManagers /\ wsOpen = [p \in Users |-> TRUE]
  /\ codec = CodecIdle /\ broker = BrokerIdle("peerjs") /\ twin = TwinIdle /\ pj = PjIdle /\ ice = IceIdle
  /\ wsm = WsmIdle /\ compact = CompactIdle

Budget(calls, cands) == [calls |-> calls, fails |-> MaxFails, cands |-> cands, dups |-> 0, chats |-> 0, drops |-> 0]

\* Two participants in the room.
Init == Init0 /\ room = {"a", "b"} /\ relayAll = TRUE /\ left = Budget(MaxCalls, 0)

----------------------------------------------------------------------------
(* VoiceRoomManagerSimple *)

\* removePeer that forgets the connection without closing it.
RemovePeerNoClose(p, u) ==
  /\ peers' = [peers EXCEPT ![p][u] = NoPc]
  /\ pcs' = pcs
  /\ remoteStreams' = [remoteStreams EXCEPT ![p][u] = FALSE]
  /\ lostCands' = [lostCands EXCEPT ![p][u] = {}]

\* removePeer that closes and forgets every connection of the participant.
RemovePeerAll(p, u) ==
  /\ peers' = [peers EXCEPT ![p] = [v \in Users |-> NoPc]]
  /\ pcs' = [pcs EXCEPT ![p] = [v \in Users |-> [g \in Gens |->
               IF PcOpen(pcs[p][v][g]) THEN ClosedPc ELSE pcs[p][v][g]]]]
  /\ remoteStreams' = [remoteStreams EXCEPT ![p] = [v \in Users |-> FALSE]]
  /\ lostCands' = [lostCands EXCEPT ![p][u] = {}]

RemovePeerKeepStream(p, u) ==
  /\ peers' = [peers EXCEPT ![p][u] = NoPc]
  /\ pcs' = IF HasPeer(p, u) THEN [pcs EXCEPT ![p][u][peers[p][u]] = ClosedPc] ELSE pcs
  /\ UNCHANGED remoteStreams
  /\ lostCands' = [lostCands EXCEPT ![p][u] = {}]

\* removePeer(username): closes and forgets the connection, forgets the stream.
RemovePeer(p, u) ==
  /\ peers' = [peers EXCEPT ![p][u] = NoPc]
  /\ pcs' = IF HasPeer(p, u) THEN [pcs EXCEPT ![p][u][peers[p][u]] = ClosedPc] ELSE pcs
  /\ remoteStreams' = [remoteStreams EXCEPT ![p][u] = FALSE]
  /\ lostCands' = [lostCands EXCEPT ![p][u] = {}]

\* The events removePeer(username) publishes.
RemovePeerEvents(p, u) ==
  IF remoteStreams[p][u] THEN <<Ev("voice:stream-removed", u)>> ELSE <<>>

\* joinVoiceChat up to its await of getUserMedia.
JoinVoiceChat(p) ==
  /\ p \in room
  /\ left.calls > 0
  /\ left' = [left EXCEPT !.calls = @ - 1]
  /\ joining' = IF inVoice[p] THEN joining ELSE [joining EXCEPT ![p] = @ + 1]
  /\ username' = IF inVoice[p] THEN username ELSE [username EXCEPT ![p] = p]
  /\ nameAtCall' = IF inVoice[p] \/ joining[p] > 0 THEN nameAtCall
                   ELSE [nameAtCall EXCEPT ![p] = username[p]]
  /\ leftPending' = IF inVoice[p] THEN leftPending ELSE [leftPending EXCEPT ![p] = FALSE]
  /\ emitted' = <<>>
  /\ UNCHANGED <<auxVars, room, relayAll, wsOpen, inVoice, localStream, liveStreams, isMuted, trackEnabled,
                 linkVars, conts, net, sentVars>>

\* joinVoiceChat after getUserMedia resolved.
JoinMediaGranted(p) ==
  /\ joining[p] > 0
  /\ joining' = [joining EXCEPT ![p] = @ - 1]
  /\ localStream' = [localStream EXCEPT ![p] = TRUE]
  /\ liveStreams' = [liveStreams EXCEPT ![p] = @ + 1]
  /\ trackEnabled' = [trackEnabled EXCEPT ![p] = TRUE]
  /\ inVoice' = [inVoice EXCEPT ![p] = TRUE]
  /\ net' = WsSend(net, p, BroadcastVoiceState(p, TRUE, isMuted[p], "join"))
  /\ emitted' = <<Ev("voice:joined", p)>>
  /\ leftPending' = IF joining[p] = 1 THEN [leftPending EXCEPT ![p] = FALSE] ELSE leftPending
  /\ UNCHANGED <<auxVars, room, relayAll, wsOpen, isMuted, nameVars, linkVars, conts, left, sentVars>>

\* joinVoiceChat after getUserMedia rejected.
JoinMediaDenied(p) ==
  /\ joining[p] > 0
  /\ joining' = [joining EXCEPT ![p] = @ - 1]
  /\ emitted' = <<Ev("voice:error", p)>>
  /\ leftPending' = IF joining[p] = 1 THEN [leftPending EXCEPT ![p] = FALSE] ELSE leftPending
  /\ UNCHANGED <<auxVars, room, relayAll, wsOpen, inVoice, localStream, liveStreams, isMuted, trackEnabled, nameVars,
                 linkVars, conts, net, left, sentVars>>

\* leaveVoiceChat()
LeaveVoiceChat(p) ==
  /\ p \in room
  /\ leftPending' = IF joining[p] > 0 THEN [leftPending EXCEPT ![p] = TRUE] ELSE leftPending
  /\ IF ~inVoice[p]
     THEN /\ emitted' = <<>>
          /\ UNCHANGED <<inVoice, localStream, liveStreams, isMuted, trackEnabled, joining, nameVars,
                         linkVars, net>>
     ELSE /\ localStream' = [localStream EXCEPT ![p] = FALSE]
          /\ liveStreams' = IF localStream[p] THEN [liveStreams EXCEPT ![p] = @ - 1]
                            ELSE liveStreams
          /\ trackEnabled' = [trackEnabled EXCEPT ![p] = FALSE]
          /\ pcs' = [pcs EXCEPT ![p] = [u \in Users |-> [g \in Gens |->
                       IF g = peers[p][u] THEN ClosedPc ELSE pcs[p][u][g]]]]
          /\ peers' = [peers EXCEPT ![p] = [u \in Users |-> NoPc]]
          /\ remoteStreams' = [remoteStreams EXCEPT ![p] = [u \in Users |-> FALSE]]
          /\ lostCands' = [lostCands EXCEPT ![p] = [u \in Users |-> {}]]
          /\ inVoice' = [inVoice EXCEPT ![p] = FALSE]
          /\ net' = WsSend(net, p, BroadcastVoiceState(p, FALSE, isMuted[p], "leave"))
          /\ emitted' = <<Ev("voice:left", p)>>
          /\ UNCHANGED <<isMuted, joining, nameVars>>
  /\ UNCHANGED <<auxVars, room, relayAll, wsOpen, conts, left, sentVars>>

\* toggleMute()
ToggleMute(p) ==
  /\ p \in room
  /\ left.calls > 0
  /\ left' = [left EXCEPT !.calls = @ - 1]
  /\ IF ~inVoice[p] \/ ~localStream[p]
     THEN /\ emitted' = <<>>
          /\ UNCHANGED <<isMuted, trackEnabled, net>>
     ELSE /\ isMuted' = [isMuted EXCEPT ![p] = ~@]
          /\ trackEnabled' = [trackEnabled EXCEPT ![p] = isMuted[p]]
          /\ net' = WsSend(net, p, BroadcastVoiceState(p, inVoice[p], ~isMuted[p], "mute"))
          /\ emitted' = <<Ev("voice:muted", p)>>
  /\ UNCHANGED <<auxVars, room, relayAll, wsOpen, inVoice, localStream, liveStreams, joining, nameVars,
                 leftPending, linkVars,
                 conts, sentVars>>

\* createPeerConnection(remoteUsername) up to its await of createOffer.
CreatePeerConnection(p, u) ==
  IF HasPeer(p, u)
  THEN UNCHANGED <<peers, pcs, conts>>
  ELSE /\ Created(p, u) < MaxGen
       /\ LET g == Created(p, u) + 1 IN
          /\ peers' = [peers EXCEPT ![p][u] = g]
          /\ pcs' = [pcs EXCEPT ![p][u][g] = NewPc(localStream[p])]
          /\ conts' = [conts EXCEPT ![p][u] = Append(@, [kind |-> "offer", gen |-> g])]

\* The guard without its test of this.inVoice.
ShouldInitiateNotJoined(p, u) == ~HasPeer(p, u)

\* The guard of handleVoiceState before it initiates a connection.
ShouldInitiate(p, u) == inVoice[p] /\ ~HasPeer(p, u)

\* handleVoiceState(data)
HandleVoiceState(p, m) ==
  LET u == m.from IN
  /\ IF m.inVoice
     THEN /\ IF ShouldInitiate(p, u)
             THEN CreatePeerConnection(p, u)
             ELSE UNCHANGED <<peers, pcs, conts>>
          /\ UNCHANGED <<remoteStreams, lostCands>>
          /\ emitted' = <<Ev("voice:joined", u), Ev("voice:muted", u)>>
     ELSE /\ RemovePeer(p, u)
          /\ UNCHANGED conts
          /\ emitted' = RemovePeerEvents(p, u)
                          \o <<Ev("voice:left", u), Ev("voice:muted", u)>>
  /\ UNCHANGED <<sentVars>>

\* The ontrack handler of a connection to u fires when a remote description
\* brings the first remote track.
TrackArrives(pc, m) == m.tracks /\ pc.remote = NoPc

\* handleOffer(from, sdp) up to its await of setRemoteDescription.
HandleOffer(p, m) ==
  LET u == m.from IN
  /\ HasPeer(p, u) \/ Created(p, u) < MaxGen
  /\ LET g == IF HasPeer(p, u) THEN peers[p][u] ELSE Created(p, u) + 1
         pc == IF HasPeer(p, u) THEN PeerPc(p, u) ELSE NewPc(localStream[p])
     IN \E rollback \in BOOLEAN :
        /\ peers' = [peers EXCEPT ![p][u] = g]
        /\ IF CanSetRemoteOffer(pc, rollback)
           THEN /\ pcs' = [pcs EXCEPT ![p][u][g] = SetRemoteOffer(pc, m.sdp)]
                /\ remoteStreams' = [remoteStreams EXCEPT ![p][u] = @ \/ TrackArrives(pc, m)]
                /\ emitted' = IF TrackArrives(pc, m)
                              THEN <<Ev("voice:stream-added", u)>> ELSE <<>>
                /\ conts' = [conts EXCEPT ![p][u] = Append(@, [kind |-> "answer", gen |-> g])]
           ELSE /\ pcs' = [pcs EXCEPT ![p][u][g] = pc]
                /\ emitted' = <<>>
                /\ conts' = [conts EXCEPT ![p][u] = Append(@, [kind |-> "catch", gen |-> g])]
                /\ UNCHANGED remoteStreams
  /\ UNCHANGED <<lostCands, sentVars>>

\* handleAnswer(from, sdp) up to its await of setRemoteDescription.
HandleAnswer(p, m) ==
  LET u == m.from IN
  /\ IF ~HasPeer(p, u)
     THEN /\ emitted' = <<>>
          /\ UNCHANGED <<pcs, remoteStreams, conts>>
     ELSE LET pc == PeerPc(p, u) IN
          IF CanSetRemoteAnswer(pc)
          THEN /\ pcs' = [pcs EXCEPT ![p][u][peers[p][u]] = SetRemoteAnswer(pc, m.sdp)]
               /\ remoteStreams' = [remoteStreams EXCEPT ![p][u] = @ \/ TrackArrives(pc, m)]
               /\ emitted' = IF TrackArrives(pc, m)
                             THEN <<Ev("voice:stream-added", u)>> ELSE <<>>
               /\ UNCHANGED conts
          ELSE /\ conts' = [conts EXCEPT ![p][u] =
                              Append(@, [kind |-> "catchAnswer", gen |-> peers[p][u]])]
               /\ emitted' = <<>>
               /\ UNCHANGED <<pcs, remoteStreams>>
  /\ UNCHANGED <<peers, lostCands, sentVars>>

\* handleIceCandidate(from, candidate)
HandleIceCandidate(p, m) ==
  LET u == m.from IN
  /\ IF ~HasPeer(p, u)
     THEN UNCHANGED <<pcs, lostCands>>
     ELSE IF CanAddIceCandidate(PeerPc(p, u))
          THEN /\ pcs' = [pcs EXCEPT ![p][u][peers[p][u]].cands = Append(@, <<m.sdp, m.n>>)]
               /\ UNCHANGED lostCands
          ELSE /\ lostCands' = [lostCands EXCEPT ![p][u] = @ \cup {<<m.sdp, m.n>>}]
               /\ UNCHANGED pcs
  /\ emitted' = <<>>
  /\ UNCHANGED <<peers, remoteStreams, conts, sentVars>>

\* handleSignaling(data)
HandleSignaling(p, m) ==
  CASE m.type = "offer" -> HandleOffer(p, m)
    [] m.type = "answer" -> HandleAnswer(p, m)
    [] m.type = "ice" -> HandleIceCandidate(p, m)

\* Every tagged envelope is taken for one of the manager's own.
AcceptsAnyTag(p, m) == m.type = "presence" \/ m.type \in SigTypes

\* The tests of handleChatMessage: a [VOICE_STATE: envelope of another user, or
\* a [VOICE_SIG: envelope addressed to this.username.
Accepts(p, m) ==
  \/ m.type = "presence" /\ m.from # username[p]
  \/ m.type \in SigTypes /\ m.to = username[p]

\* handleChatMessage(messageData): p receives the oldest chat message of s.
HandleChatMessage(s, p) ==
  /\ p \in room
  /\ net[s][p] # <<>>
  /\ LET m == Head(net[s][p]) IN
     IF Accepts(p, m)
     THEN IF m.type = "presence" THEN HandleVoiceState(p, m) ELSE HandleSignaling(p, m)
     ELSE /\ emitted' = <<>>
          /\ UNCHANGED <<linkVars, conts, sentVars>>
  /\ net' = Pop(net, s, p)
  /\ UNCHANGED <<auxVars, room, relayAll, wsOpen, sessVars, left>>

\* Whether the promise of an operation that cannot succeed settles, so that the
\* catch block runs: it is rejected when the connection is in the wrong state;
\* when the connection was closed meanwhile it is rejected or left pending.
PromiseSettles(pc) == IF PcOpen(pc) THEN {TRUE} ELSE BOOLEAN

\* The rest of createPeerConnection (createOffer, setLocalDescription, send the
\* offer), of handleOffer (createAnswer, setLocalDescription, send the answer),
\* and the catch blocks of createPeerConnection, handleOffer and handleAnswer.
Continue(p, u) ==
  /\ conts[p][u] # <<>>
  /\ LET c == Head(conts[p][u])
         pc == pcs[p][u][c.gen]
     IN CASE c.kind = "offer" /\ CanSetLocalOffer(pc) ->
               /\ pcs' = [pcs EXCEPT ![p][u][c.gen] =
                                   [SetLocalOffer(pc) EXCEPT !.unsent = @ \/ ~wsOpen[p]]]
               /\ net' = WsSend(net, p, SendSignaling(p, SigMsg("offer", p, u, c.gen, pc.tracks, 0)))
               /\ nOffers' = [nOffers EXCEPT ![p][u] = @ + Len(SendSignaling(p, 0))]
               /\ glared' = IF wsOpen[p] /\ OfferInFlight(u, p) THEN glared \cup {{p, u}} ELSE glared
               /\ emitted' = <<>>
               /\ UNCHANGED <<peers, remoteStreams, lostCands, nAnswers>>
          [] c.kind = "answer" /\ CanSetLocalAnswer(pc) ->
               /\ pcs' = [pcs EXCEPT ![p][u][c.gen] =
                                   [SetLocalAnswer(pc) EXCEPT !.unsent = @ \/ ~wsOpen[p]]]
               /\ net' = WsSend(net, p, SendSignaling(p, SigMsg("answer", p, u, c.gen, pc.tracks, 0)))
               /\ nAnswers' = [nAnswers EXCEPT ![p][u] = @ + Len(SendSignaling(p, 0))]
               /\ emitted' = <<>>
               /\ UNCHANGED <<peers, remoteStreams, lostCands, nOffers, glared>>
          [] OTHER ->
               \E settles \in PromiseSettles(pc) :
                 /\ IF settles
                    THEN RemovePeer(p, u) /\ emitted' = RemovePeerEvents(p, u)
                    ELSE UNCHANGED linkVars /\ emitted' = <<>>
                 /\ UNCHANGED <<net, sentVars>>
  /\ conts' = [conts EXCEPT ![p][u] = Tail(@)]
  /\ UNCHANGED <<auxVars, room, relayAll, wsOpen, sessVars, left>>

\* pc.onicecandidate of a connection of p to u: a gathered candidate is sent.
OnIceCandidate(p, u) ==
  \E g \in Gens :
    LET pc == pcs[p][u][g] IN
    /\ PcOpen(pc) /\ pc.local
    /\ left.cands > 0
    /\ left' = [left EXCEPT !.cands = @ - 1]
    /\ pcs' = [pcs EXCEPT ![p][u][g].ncand = @ + 1]
    /\ net' = WsSend(net, p, SendSignaling(p, SigMsg("ice", p, u, g, FALSE, pc.ncand + 1)))
    /\ emitted' = <<>>
    /\ UNCHANGED <<auxVars, room, relayAll, wsOpen, sessVars, peers, remoteStreams, lostCands, conts,
                   sentVars>>

\* pc.onconnectionstatechange of a connection of p to u, with state 'failed'.
OnConnectionFailed(p, u) ==
  \E g \in Gens :
    LET pc == pcs[p][u][g] IN
    /\ PcOpen(pc) /\ pc.local /\ pc.remote # NoPc
    /\ left.fails > 0
    /\ left' = [left EXCEPT !.fails = @ - 1]
    /\ RemovePeer(p, u)
    /\ emitted' = RemovePeerEvents(p, u)
    /\ UNCHANGED <<auxVars, room, relayAll, wsOpen, sessVars, conts, net, sentVars>>

----------------------------------------------------------------------------
(* Specifications *)

\* Two participants; user calls, deliveries, continuations, connection failures.
Next ==
  \/ \E p \in Users : JoinVoiceChat(p)
  \/ \E p \in Users : JoinMediaGranted(p)
  \/ \E p \in Users : JoinMediaDenied(p)
  \/ \E p \in Users : LeaveVoiceChat(p)
  \/ \E p \in Users : ToggleMute(p)
  \/ \E s, p \in Users : HandleChatMessage(s, p)
  \/ \E p, u \in Users : Continue(p, u)
  \/ \E p, u \in Users : OnConnectionFailed(p, u)

Spec == Init /\ [][Next]_vars

\* The same with one more user call and with trickled ICE candidates.
InitWide == Init0 /\ room = {"a", "b"} /\ relayAll = TRUE /\ left = Budget(WideCalls, MaxCand)

NextWide ==
  \/ Next
  \/ \E p, u \in Users : OnIceCandidate(p, u)

SpecWide == InitWide /\ [][NextWide]_vars

\* The same as Spec, with chat websockets that may not be open.
InitOffline ==
  /\ InitManagers /\ codec = CodecIdle /\ broker = BrokerIdle("peerjs") /\ twin = TwinIdle /\ pj = PjIdle /\ ice = IceIdle
  /\ wsm = WsmIdle /\ compact = CompactIdle
  /\ wsOpen \in [Users -> BOOLEAN] /\ wsOpen["c"]
  /\ room = {"a", "b"} /\ relayAll = TRUE /\ left = Budget(MaxCalls, 0)

SpecOffline == InitOffline /\ [][Next]_vars

\* A participant that is neither joined nor joining calls joinVoiceChat.
JoinOnce(p) == ~inVoice[p] /\ joining[p] = 0 /\ JoinVoiceChat(p)

\* Three participants that join in any order and stay; every message is delivered.
InitMesh == Init0 /\ room = Users /\ relayAll = FALSE /\ left = Budget(Cardinality(Users), 0)

NextMesh ==
  \/ \E p \in Users : JoinOnce(p)
  \/ \E p \in Users : JoinMediaGranted(p)
  \/ \E s, p \in Users : HandleChatMessage(s, p)
  \/ \E p, u \in Users : Continue(p, u)

SpecMesh == InitMesh /\ [][NextMesh]_vars

\* Three participants that join one after the other, each when the room is
\* at rest, and stay; connections may fail.
OrderedJoin(p) ==
  /\ \A q \in Users : LexLess(q, p) => inVoice[q]
  /\ \A q, u \in Users : net[q][u] = <<>> /\ conts[q][u] = <<>> /\ joining[q] = 0
  /\ JoinOnce(p)

InitFail == InitMesh

NextFail ==
  \/ \E p \in Users : OrderedJoin(p)
  \/ \E p \in Users : JoinMediaGranted(p)
  \/ \E s, p \in Users : HandleChatMessage(s, p)
  \/ \E p, u \in Users : Continue(p, u)
  \/ \E p, u \in Users : OnConnectionFailed(p, u)

SpecFail == InitFail /\ [][NextFail]_vars

\* The chat server relays the oldest message of s to p a second time, with a
\* later timestamp: NightcordManager.handleMessage passes both copies on.
DuplicateEnvelope(s, p) ==
  /\ p \in room
  /\ net[s][p] # <<>> /\ Head(net[s][p]).why # "duplicate"
  /\ left.dups > 0
  /\ left' = [left EXCEPT !.dups = @ - 1]
  /\ net' = [net EXCEPT ![s][p] =
               <<Head(@), [Head(@) EXCEPT !.why = "duplicate"]>> \o Tail(@)]
  /\ emitted' = <<>>
  /\ UNCHANGED <<auxVars, room, relayAll, wsOpen, sessVars, linkVars, conts, sentVars>>

\* Two participants; a chat message may be delivered twice.
InitDup ==
  /\ Init0 /\ room = {"a", "b"} /\ relayAll = TRUE
  /\ left = [Budget(MaxCalls, 0) EXCEPT !.dups = MaxDups]

NextDup ==
  \/ Next
  \/ \E s, p \in Users : DuplicateEnvelope(s, p)

SpecDup == InitDup /\ [][NextDup]_vars

\* The chat messages of s that reach p without being meant for p's manager: an
\* untagged message, an offer of s to another user, and, when s is p, the
\* presence envelope p sent itself.
OtherTraffic(s, p) ==
  {ChatMsg(s)}
    \cup {SigMsg("offer", s, u, 1, TRUE, 0) : u \in Users \ {s, p}}
    \cup {PresenceMsg(s, in, isMuted[p], "echo") :
            in \in {i \in BOOLEAN : s = p /\ username[p] = p}}

\* The chat server relays to p a message of s that is not meant for p's manager.
RelayOther(s, p) ==
  /\ p \in room /\ s \in room
  /\ left.chats > 0
  /\ left' = [left EXCEPT !.chats = @ - 1]
  /\ \E m \in OtherTraffic(s, p) : net' = [net EXCEPT ![s][p] = Append(@, m)]
  /\ emitted' = <<>>
  /\ UNCHANGED <<auxVars, room, relayAll, wsOpen, sessVars, linkVars, conts, sentVars>>

\* Two participants in a room with other chat traffic.
InitChat ==
  /\ Init0 /\ room = {"a", "b"} /\ relayAll = TRUE
  /\ left = [Budget(MaxCalls, 0) EXCEPT !.chats = MaxChats]

NextChat ==
  \/ Next
  \/ \E s, p \in Users : RelayOther(s, p)

SpecChat == InitChat /\ [][NextChat]_vars

\* The envelopes a chat user s can type that name another user u in their
\* payload: a presence envelope of u, and an offer of u addressed to p.
ForgedTraffic(s, p) ==
  {PresenceMsg(u, in, FALSE, "forged") : u \in Users \ {s, p}, in \in BOOLEAN}
    \cup {SigMsg("offer", u, p, 1, TRUE, 0) : u \in Users \ {s, p}}

\* The chat server relays such a message of s to p, under the name of s.
RelayForged(s, p) ==
  /\ p \in room /\ s # p
  /\ left.chats > 0
  /\ left' = [left EXCEPT !.chats = @ - 1]
  /\ \E m \in ForgedTraffic(s, p) : net' = [net EXCEPT ![s][p] = Append(@, m)]
  /\ emitted' = <<>>
  /\ UNCHANGED <<auxVars, room, relayAll, wsOpen, sessVars, linkVars, conts, sentVars>>

\* Two participants in a room where a chat user sends envelopes that name
\* another user.
InitForge == InitChat

NextForge ==
  \/ Next
  \/ \E s, p \in Users : RelayForged(s, p)

SpecForge == InitForge /\ [][NextForge]_vars

\* The chat websocket of p closes: the "close" listener of WebSocketManager.
WsClose(p) ==
  /\ p \in room /\ wsOpen[p]
  /\ left.drops > 0
  /\ left' = [left EXCEPT !.drops = @ - 1]
  /\ wsOpen' = [wsOpen EXCEPT ![p] = FALSE]
  /\ emitted' = <<>>
  /\ UNCHANGED <<auxVars, room, relayAll, sessVars, linkVars, conts, net, sentVars>>

\* WebSocketManager.rejoin: the websocket of p is connected again.
WsRejoin(p) ==
  /\ p \in room /\ ~wsOpen[p]
  /\ wsOpen' = [wsOpen EXCEPT ![p] = TRUE]
  /\ emitted' = <<>>
  /\ UNCHANGED <<auxVars, room, relayAll, sessVars, linkVars, conts, net, left, sentVars>>

\* A chat message reaches p over its open websocket; what was sent while it
\* was closed arrives once it is connected again.
ReceiveOnline(s, p) == wsOpen[p] /\ HandleChatMessage(s, p)

\* Two participants whose chat websockets may close and be connected again.
InitFlaky ==
  /\ Init0 /\ room = {"a", "b"} /\ relayAll = TRUE
  /\ left = [Budget(MaxCalls, 0) EXCEPT !.drops = MaxDrops]

NextFlaky ==
  \/ \E p \in Users : JoinVoiceChat(p)
  \/ \E p \in Users : JoinMediaGranted(p)
  \/ \E p \in Users : JoinMediaDenied(p)
  \/ \E p \in Users : LeaveVoiceChat(p)
  \/ \E p \in Users : ToggleMute(p)
  \/ \E s, p \in Users : ReceiveOnline(s, p)
  \/ \E p, u \in Users : Continue(p, u)
  \/ \E p, u \in Users : OnConnectionFailed(p, u)
  \/ \E p \in Users : WsClose(p)
  \/ \E p \in Users : WsRejoin(p)

SpecFlaky == InitFlaky /\ [][NextFlaky]_vars

\* leaveVoiceChat() called when no joinVoiceChat of p is pending.
LeaveSettled(p) == joining[p] = 0 /\ LeaveVoiceChat(p)

\* Two participants that join, mute, leave and join again, one user call of a
\* participant after the other.
InitRejoin == Init0 /\ room = {"a", "b"} /\ relayAll = TRUE /\ left = Budget(WideCalls, 0)

NextRejoin ==
  \/ \E p \in Users : JoinOnce(p)
  \/ \E p \in Users : JoinMediaGranted(p)
  \/ \E p \in Users : JoinMediaDenied(p)
  \/ \E p \in Users : LeaveSettled(p)
  \/ \E p \in Users : ToggleMute(p)
  \/ \E s, p \in Users : HandleChatMessage(s, p)
  \/ \E p, u \in Users : Continue(p, u)

SpecRejoin == InitRejoin /\ [][NextRejoin]_vars

\* "b" joins after "a" has joined and a's announcement has been received.
LateJoin(p) ==
  /\ p = "b" => inVoice["a"] /\ net["a"]["b"] = <<>>
  /\ JoinOnce(p)

NextLate ==
  \/ \E p \in Users : LateJoin(p)
  \/ \E p \in Users : JoinMediaGranted(p)
  \/ \E p \in Users : JoinMediaDenied(p)
  \/ \E s, p \in Users : HandleChatMessage(s, p)
  \/ \E p, u \in Users : Continue(p, u)
  \/ \E p, u \in Users : OnIceCandidate(p, u)

\* The event loop runs every delivered message and every pending continuation,
\* and getUserMedia settles.
InitLate == Init0 /\ room = {"a", "b"} /\ relayAll = TRUE /\ left = Budget(WideCalls, LateCand)

SpecLate ==
  /\ InitLate /\ [][NextLate]_vars
  /\ WF_vars(\E s, p \in Users : HandleChatMessage(s, p))
  /\ WF_vars(\E p, u \in Users : Continue(p, u))
  /\ WF_vars(\E p \in Users : JoinMediaGranted(p) \/ JoinMediaDenied(p))

----------------------------------------------------------------------------
(* One presence envelope from broadcastVoiceState to handleChatMessage *)

\* broadcastVoiceState builds the chat message.
CodecBroadcast ==
  /\ codec.phase = "new"
  /\ codec' = [codec EXCEPT !.phase = "sent",
                            !.wire = EncodeEnvelope(codec.strategy, codec.env)]
  /\ UNCHANGED <<broker, twin, pj, ice, wsm, compact, room, relayAll, wsOpen, sessVars, linkVars, conts, net, emitted, left, sentVars>>

\* handleChatMessage takes the envelope out of the chat message.
CodecReceive ==
  /\ codec.phase = "sent"
  /\ codec' = [codec EXCEPT !.phase = "received",
                            !.out = DecodeEnvelope(codec.strategy, codec.wire)]
  /\ UNCHANGED <<broker, twin, pj, ice, wsm, compact, room, relayAll, wsOpen, sessVars, linkVars, conts, net, emitted, left, sentVars>>

InitCodec ==
  /\ InitManagers /\ wsOpen = [p \in Users |-> TRUE] /\ broker = BrokerIdle("peerjs")
  /\ twin = TwinIdle /\ pj = PjIdle /\ ice = IceIdle
  /\ wsm = WsmIdle /\ compact = CompactIdle
  /\ room = {} /\ relayAll = TRUE /\ left = Budget(0, 0)
  /\ codec \in [phase : {"new"}, strategy : {"simple", "peerjs"}, env : Envelopes,
                wire : {<<>>}, out : {<<>>}]

NextCodec == CodecBroadcast \/ CodecReceive

SpecCodec == InitCodec /\ [][NextCodec]_vars

----------------------------------------------------------------------------
(* VoiceRoomManagerPeerJS and VoiceRoomManagerSocketIO: joining connects the *)
(* manager's own signaling transport.                                        *)

BrokerFrame ==
  UNCHANGED <<codec, twin, pj, ice, wsm, compact, room, relayAll, wsOpen, sessVars, linkVars, conts, net, emitted, left, sentVars>>

\* joinVoiceChat up to its await of getUserMedia.
BrokerJoin ==
  /\ broker.phase = "idle" /\ ~broker.inVoice /\ broker.joins < MaxJoins
  /\ broker' = [broker EXCEPT !.phase = "media", !.joins = @ + 1]
  /\ BrokerFrame

\* getUserMedia rejected: the catch block of joinVoiceChat.
BrokerMediaDenied ==
  /\ broker.phase = "media"
  /\ broker' = [broker EXCEPT !.phase = "idle"]
  /\ BrokerFrame

\* getUserMedia resolved: initializePeer() or connectSignaling() creates the
\* Peer or the socket.
BrokerMediaGranted ==
  /\ broker.phase = "media"
  /\ broker' = [broker EXCEPT !.phase = "connecting", !.pending = TRUE, !.localStream = TRUE,
                              !.transport = TRUE, !.attempts = @ + 1]
  /\ BrokerFrame

\* The 'open' event of the Peer, the 'connect' event of the socket: the promise
\* resolves and joinVoiceChat goes on.
BrokerOpen ==
  /\ broker.phase = "connecting"
  /\ broker' = [broker EXCEPT !.phase = "idle", !.pending = FALSE,
                              !.inVoice = @ \/ broker.pending]
  /\ BrokerFrame

\* The 'error' event of the Peer, the 'connect_error' event of the socket.
BrokerError(kind) ==
  /\ broker.transport /\ broker.phase \in {"connecting", "idle"}
  /\ broker.errors < MaxErrors
  /\ IF broker.strategy = "peerjs" /\ kind = "unavailable-id"
     THEN broker' = [broker EXCEPT !.phase = "timer", !.errors = @ + 1]
     ELSE broker' = [broker EXCEPT !.phase = "idle", !.pending = FALSE, !.errors = @ + 1]
  /\ BrokerFrame

\* The timeout of initializePeer's error handler: initializePeer() again.
BrokerRetry ==
  /\ broker.phase = "timer"
  /\ broker' = [broker EXCEPT !.phase = "connecting", !.transport = TRUE, !.attempts = @ + 1]
  /\ BrokerFrame

\* leaveVoiceChat()
BrokerLeave ==
  /\ broker.inVoice
  /\ broker' = [broker EXCEPT !.inVoice = FALSE, !.localStream = FALSE, !.transport = FALSE,
                              !.phase = IF @ = "timer" THEN "timer" ELSE "idle"]
  /\ BrokerFrame

InitBroker ==
  /\ InitManagers /\ wsOpen = [p \in Users |-> TRUE] /\ codec = CodecIdle
  /\ twin = TwinIdle /\ pj = PjIdle /\ ice = IceIdle
  /\ wsm = WsmIdle /\ compact = CompactIdle
  /\ room = {} /\ relayAll = TRUE /\ left = Budget(0, 0)
  /\ broker \in {BrokerIdle(st) : st \in {"peerjs", "socketio"}}

NextBroker ==
  \/ BrokerJoin
  \/ BrokerMediaDenied
  \/ BrokerMediaGranted
  \/ BrokerOpen
  \/ \E kind \in {"unavailable-id", "network"} : BrokerError(kind)
  \/ BrokerRetry
  \/ BrokerLeave

SpecBroker == InitBroker /\ [][NextBroker]_vars

----------------------------------------------------------------------------
(* The in-band strategy and the relay strategy side by side: the local user   *)
(* "a" runs one manager of each, and both are given the same events.  Every   *)
(* handler runs to its end before the next event.                             *)

TwinEmit(m, evs) == [m EXCEPT !.emitted = @ \o evs]

\* removePeer(username)
TwinRemovePeer(m, u) ==
  [m EXCEPT !.peers[u] = NonePc,
            !.remoteStreams[u] = FALSE,
            !.emitted = @ \o IF m.remoteStreams[u]
                              THEN <<Ev("voice:stream-removed", u)>> ELSE <<>>]

\* Whether an event of a remote user reaches a handler of the manager: the
\* in-band manager listens to the chat from its construction on, and takes
\* signaling only when it is addressed to this.username; the relay manager has
\* its handlers on the socket that joinVoiceChat opens and leaveVoiceChat
\* disconnects.
TwinHears(strategy, m, signaling) ==
  IF strategy = "simple" THEN ~signaling \/ m.named ELSE m.socket

\* joinVoiceChat with getUserMedia granted and the transport connected.
TwinJoined(strategy, m) ==
  IF m.inVoice THEN m
  ELSE [m EXCEPT !.named = TRUE, !.localStream = TRUE, !.socket = TRUE, !.inVoice = TRUE,
                 !.emitted = <<Ev("voice:joined", "a")>>]

\* createPeerConnection(remoteUsername): the offer is created, set and sent.
TwinCreatePeerConnection(m, u) ==
  IF PcOpen(m.peers[u]) THEN m
  ELSE [m EXCEPT !.peers[u] = SetLocalOffer(NewPc(m.localStream))]

\* handleVoiceState({username, inVoice: true, muted}) / handleUserJoined(username)
TwinUserJoined(strategy, m, u) ==
  LET m1 == TwinEmit(m, <<Ev("voice:joined", u)>>)
      m2 == IF m1.inVoice /\ ~PcOpen(m1.peers[u]) THEN TwinCreatePeerConnection(m1, u) ELSE m1
  IN IF ~TwinHears(strategy, m, FALSE) THEN m
     ELSE IF strategy = "simple" THEN TwinEmit(m2, <<Ev("voice:muted", u)>>) ELSE m2

\* handleVoiceState({username, inVoice: false, muted}) / handleUserLeft(username)
TwinUserLeft(strategy, m, u) ==
  LET m1 == TwinEmit(TwinRemovePeer(m, u), <<Ev("voice:left", u)>>)
  IN IF ~TwinHears(strategy, m, FALSE) THEN m
     ELSE IF strategy = "simple" THEN TwinEmit(m1, <<Ev("voice:muted", u)>>) ELSE m1

\* handleOffer(from, sdp)
TwinOffer(strategy, m, u, rollback) ==
  LET pc == IF PcOpen(m.peers[u]) THEN m.peers[u] ELSE NewPc(m.localStream)
      msg == SigMsg("offer", u, "a", 1, TRUE, 0)
  IN IF ~TwinHears(strategy, m, TRUE) THEN m
     ELSE IF CanSetRemoteOffer(pc, rollback)
          THEN [m EXCEPT !.peers[u] = SetLocalAnswer(SetRemoteOffer(pc, msg.sdp)),
                         !.remoteStreams[u] = @ \/ TrackArrives(pc, msg),
                         !.emitted = @ \o IF TrackArrives(pc, msg)
                                           THEN <<Ev("voice:stream-added", u)>> ELSE <<>>]
          ELSE TwinRemovePeer(m, u)

\* handleAnswer(from, sdp)
TwinAnswer(strategy, m, u) ==
  LET pc == m.peers[u]
      msg == SigMsg("answer", u, "a", 1, TRUE, 0)
  IN IF ~TwinHears(strategy, m, TRUE) \/ ~PcOpen(pc) THEN m
     ELSE IF CanSetRemoteAnswer(pc)
          THEN [m EXCEPT !.peers[u] = SetRemoteAnswer(pc, msg.sdp),
                         !.remoteStreams[u] = @ \/ TrackArrives(pc, msg),
                         !.emitted = @ \o IF TrackArrives(pc, msg)
                                           THEN <<Ev("voice:stream-added", u)>> ELSE <<>>]
          ELSE TwinRemovePeer(m, u)

\* handleIceCandidate(from, candidate): the candidate is added or the failure
\* is logged; neither changes a link or publishes an event.
TwinIce(strategy, m, u) == m

\* pc.onconnectionstatechange with failed, on the connection to u.
TwinFailed(m, u) == IF PcOpen(m.peers[u]) THEN TwinRemovePeer(m, u) ELSE m

\* toggleMute()
TwinToggleMute(m) ==
  IF ~m.inVoice \/ ~m.localStream THEN m
  ELSE [m EXCEPT !.isMuted = ~@, !.emitted = <<Ev("voice:muted", "a")>>]

\* leaveVoiceChat()
TwinLeave(strategy, m) ==
  IF ~m.inVoice THEN m
  ELSE [m EXCEPT !.localStream = FALSE,
                 !.peers = [u \in TwinRemotes |-> NonePc],
                 !.remoteStreams = [u \in TwinRemotes |-> FALSE],
                 !.socket = strategy = "simple",
                 !.inVoice = FALSE,
                 !.emitted = <<Ev("voice:left", "a")>>]

TwinFrame ==
  UNCHANGED <<codec, broker, pj, ice, wsm, compact, room, relayAll, wsOpen, sessVars, linkVars, conts, net, emitted,
              left, sentVars>>

\* The two managers before an event: nothing published yet.
TwinSimple == [twin.simple EXCEPT !.emitted = <<>>]
TwinRelay == [twin.socketio EXCEPT !.emitted = <<>>]

TwinJoinEvent ==
  /\ twin' = [simple |-> TwinJoined("simple", TwinSimple),
              socketio |-> TwinJoined("socketio", TwinRelay)]
  /\ TwinFrame

TwinUserJoinedEvent(u) ==
  /\ twin' = [simple |-> TwinUserJoined("simple", TwinSimple, u),
              socketio |-> TwinUserJoined("socketio", TwinRelay, u)]
  /\ TwinFrame

TwinUserLeftEvent(u) ==
  /\ twin' = [simple |-> TwinUserLeft("simple", TwinSimple, u),
              socketio |-> TwinUserLeft("socketio", TwinRelay, u)]
  /\ TwinFrame

TwinOfferEvent(u) ==
  /\ \E rollback \in BOOLEAN :
       twin' = [simple |-> TwinOffer("simple", TwinSimple, u, rollback),
                socketio |-> TwinOffer("socketio", TwinRelay, u, rollback)]
  /\ TwinFrame

TwinAnswerEvent(u) ==
  /\ twin' = [simple |-> TwinAnswer("simple", TwinSimple, u),
              socketio |-> TwinAnswer("socketio", TwinRelay, u)]
  /\ TwinFrame

TwinIceEvent(u) ==
  /\ twin' = [simple |-> TwinIce("simple", TwinSimple, u),
              socketio |-> TwinIce("socketio", TwinRelay, u)]
  /\ TwinFrame

TwinFailedEvent(u) ==
  /\ PcOpen(twin.simple.peers[u]) \/ PcOpen(twin.socketio.peers[u])
  /\ twin' = [simple |-> TwinFailed(TwinSimple, u), socketio |-> TwinFailed(TwinRelay, u)]
  /\ TwinFrame

TwinToggleMuteEvent ==
  /\ twin' = [simple |-> TwinToggleMute(TwinSimple), socketio |-> TwinToggleMute(TwinRelay)]
  /\ TwinFrame

TwinLeaveEvent ==
  /\ twin' = [simple |-> TwinLeave("simple", TwinSimple),
              socketio |-> TwinLeave("socketio", TwinRelay)]
  /\ TwinFrame

InitTwin ==
  /\ InitManagers /\ wsOpen = [p \in Users |-> TRUE]
  /\ codec = CodecIdle /\ broker = BrokerIdle("peerjs") /\ twin = TwinIdle /\ pj = PjIdle /\ ice = IceIdle
  /\ wsm = WsmIdle /\ compact = CompactIdle
  /\ room = {} /\ relayAll = TRUE /\ left = Budget(0, 0)

NextTwin ==
  \/ TwinJoinEvent
  \/ \E u \in TwinRemotes : TwinUserJoinedEvent(u)
  \/ \E u \in TwinRemotes : TwinUserLeftEvent(u)
  \/ \E u \in TwinRemotes : TwinOfferEvent(u)
  \/ \E u \in TwinRemotes : TwinAnswerEvent(u)
  \/ \E u \in TwinRemotes : TwinIceEvent(u)
  \/ \E u \in TwinRemotes : TwinFailedEvent(u)
  \/ TwinToggleMuteEvent
  \/ TwinLeaveEvent

SpecTwin == InitTwin /\ [][NextTwin]_vars

----------------------------------------------------------------------------
(* The peer-id strategy: two managers, "a" and "b".  pj.chat[p] holds the     *)
(* [VOICE_PEER: envelopes on their way to p, pj.call[p] the MediaConnection   *)
(* p placed last.                                                             *)

PjOther(p) == CHOOSE u \in PjUsers : u # p

PjFrame ==
  UNCHANGED <<codec, broker, twin, ice, wsm, compact, room, relayAll, wsOpen, sessVars, linkVars, conts, net,
              emitted, left, sentVars>>

\* The envelope of broadcastVoiceState: {username, inVoice, muted, peerId}.
PjPresence(p, in, id) == [from |-> p, inVoice |-> in, peerId |-> id]

\* call.close() on the MediaConnection the calls map of p holds for u.
PjCloseCall(calls, p, u, kind) ==
  IF kind = "out" THEN [calls EXCEPT ![p].st = "closed"]
  ELSE IF kind = "in" THEN [calls EXCEPT ![u].st = "closed"]
  ELSE calls

\* peer.destroy(): every MediaConnection of the Peer of p is closed, the one it
\* placed and the ones it answered, whether the calls map holds them or not.
PjDestroy(calls, p, id) ==
  [w \in PjUsers |->
     IF w = p /\ calls[w].st \in {"ringing", "answered"} THEN [calls[w] EXCEPT !.st = "closed"]
     ELSE IF w # p /\ calls[w].st = "answered" /\ calls[w].toId = id
     THEN [calls[w] EXCEPT !.st = "closed"]
     ELSE calls[w]]

\* removePeer(username), on the managers and on the calls.
PjRemovePeer(m, u) ==
  [m EXCEPT !.calls[u] = "none", !.remoteStreams[u] = FALSE]

PjRemovePeerEvents(m, u) ==
  IF m.remoteStreams[u] THEN <<Ev("voice:stream-removed", u)>> ELSE <<>>

\* joinVoiceChat: getUserMedia is granted, the Peer opens with a fresh id, the
\* presence is broadcast.
PjJoin(p) ==
  /\ ~pj.mgr[p].inVoice /\ pj.joins < MaxPjJoins
  /\ pj' = [pj EXCEPT !.mgr[p].inVoice = TRUE,
                      !.mgr[p].peerId = pj.ids + 1,
                      !.ids = @ + 1, !.joins = @ + 1,
                      !.chat[PjOther(p)] = Append(@, PjPresence(p, TRUE, pj.ids + 1)),
                      !.emitted = <<Ev("voice:joined", p)>>]
  /\ PjFrame

\* leaveVoiceChat()
PjLeave(p) ==
  /\ pj.mgr[p].inVoice
  /\ pj' = [pj EXCEPT !.mgr[p] = PjManager,
                      !.call = PjDestroy(PjCloseCall(@, p, PjOther(p), pj.mgr[p].calls[PjOther(p)]),
                                         p, pj.mgr[p].peerId),
                      !.chat[PjOther(p)] = Append(@, PjPresence(p, FALSE, 0)),
                      !.emitted = <<Ev("voice:left", p)>>]
  /\ PjFrame

\* handleChatMessage, handleVoiceState and callPeer on the oldest envelope.
PjHandleVoiceState(p) ==
  /\ pj.chat[p] # <<>>
  /\ LET d == Head(pj.chat[p])
         u == d.from
         m == pj.mgr[p]
     IN IF d.inVoice /\ d.peerId # 0
        THEN LET calling == m.inVoice /\ m.calls[u] = "none" IN
             pj' = [pj EXCEPT
                      !.chat[p] = Tail(@),
                      !.mgr[p].known[u] = d.peerId,
                      !.mgr[p].calls[u] = IF calling THEN "out" ELSE @,
                      !.call[p] = IF calling
                                  THEN [st |-> "ringing", fromId |-> m.peerId, toId |-> d.peerId,
                                        callerGot |-> FALSE, calleeGot |-> FALSE]
                                  ELSE @,
                      !.emitted = <<Ev("voice:joined", u), Ev("voice:muted", u)>>]
        ELSE pj' = [pj EXCEPT
                      !.chat[p] = Tail(@),
                      !.mgr[p] = [PjRemovePeer(m, u) EXCEPT !.known[u] = 0],
                      !.call = PjCloseCall(@, p, u, m.calls[u]),
                      !.emitted = PjRemovePeerEvents(m, u)
                                    \o <<Ev("voice:left", u), Ev("voice:muted", u)>>]
  /\ PjFrame

\* peer.on('call'): the call u placed reaches the Peer of p, which answers it.
PjAnswerCall(p) ==
  LET u == PjOther(p) IN
  /\ pj.call[u].st = "ringing"
  /\ pj.mgr[p].inVoice /\ pj.call[u].toId = pj.mgr[p].peerId
  /\ pj' = [pj EXCEPT !.call[u].st = "answered", !.emitted = <<>>]
  /\ PjFrame

\* call.on('stream') of callPeer: the stream of u reaches the caller p.
PjCallerStream(p) ==
  LET u == PjOther(p) IN
  /\ pj.call[p].st = "answered" /\ ~pj.call[p].callerGot
  /\ pj' = [pj EXCEPT !.call[p].callerGot = TRUE,
                      !.mgr[p].remoteStreams[u] = TRUE,
                      !.emitted = <<Ev("voice:stream-added", u)>>]
  /\ PjFrame

\* call.on('stream') of the call handler, then handleIncomingCall: the stream
\* of the caller u reaches p, which looks the caller's peer id up.
PjCalleeStream(p) ==
  LET u == PjOther(p)
      names == {w \in PjUsers : pj.mgr[p].known[w] = pj.call[u].fromId}
  IN
  /\ pj.call[u].st = "answered" /\ ~pj.call[u].calleeGot
  /\ IF names = {}
     THEN pj' = [pj EXCEPT !.call[u].calleeGot = TRUE, !.emitted = <<>>]
     ELSE LET w == CHOOSE w \in names : TRUE IN
          pj' = [pj EXCEPT !.call[u].calleeGot = TRUE,
                           !.mgr[p].remoteStreams[w] = TRUE,
                           !.mgr[p].calls[w] = "in",
                           !.emitted = <<Ev("voice:stream-added", w)>>]
  /\ PjFrame

\* call.on('close') at p, for a call the other end closed: removePeer.
PjCallClosed(p) ==
  LET u == PjOther(p)
      kind == pj.mgr[p].calls[u]
  IN
  /\ \/ kind = "out" /\ pj.call[p].st = "closed"
     \/ kind = "in" /\ pj.call[u].st = "closed"
  /\ pj' = [pj EXCEPT !.mgr[p] = PjRemovePeer(@, u),
                      !.emitted = PjRemovePeerEvents(pj.mgr[p], u)]
  /\ PjFrame

InitPj ==
  /\ InitManagers /\ wsOpen = [p \in Users |-> TRUE]
  /\ codec = CodecIdle /\ broker = BrokerIdle("peerjs") /\ twin = TwinIdle /\ pj = PjIdle /\ ice = IceIdle
  /\ wsm = WsmIdle /\ compact = CompactIdle
  /\ room = {} /\ relayAll = TRUE /\ left = Budget(0, 0)

\* A participant joins when it has received every envelope sent so far.
PjJoinAtRest(p) == pj.chat[p] = <<>> /\ PjJoin(p)

NextPj ==
  \/ \E p \in PjUsers : PjJoinAtRest(p)
  \/ \E p \in PjUsers : PjLeave(p)
  \/ \E p \in PjUsers : PjHandleVoiceState(p)
  \/ \E p \in PjUsers : PjAnswerCall(p)
  \/ \E p \in PjUsers : PjCallerStream(p)
  \/ \E p \in PjUsers : PjCalleeStream(p)
  \/ \E p \in PjUsers : PjCallClosed(p)

SpecPj == InitPj /\ [][NextPj]_vars

\* The same two managers, joining at any time: both may be joined when they
\* receive each other's presence, and then both place a call.
NextPjRace ==
  \/ \E p \in PjUsers : PjJoin(p)
  \/ \E p \in PjUsers : PjLeave(p)
  \/ \E p \in PjUsers : PjHandleVoiceState(p)
  \/ \E p \in PjUsers : PjAnswerCall(p)
  \/ \E p \in PjUsers : PjCallerStream(p)
  \/ \E p \in PjUsers : PjCalleeStream(p)
  \/ \E p \in PjUsers : PjCallClosed(p)

SpecPjRace == InitPj /\ [][NextPjRace]_vars

\* A room served by one strategy: managers of the in-band strategy, or, with no
\* such manager in the room, managers of the peer-id strategy.
InitStreams == Init \/ InitPj

NextStreams ==
  \/ Next
  \/ room = {} /\ NextPjRace

SpecStreams == InitStreams /\ [][NextStreams]_vars

----------------------------------------------------------------------------
(* WebRTCManager: createOffer, createAnswer and the wait for ICE gathering,   *)
(* one manager per remote user.                                               *)

IceFrame ==
  UNCHANGED <<codec, broker, twin, pj, wsm, compact, room, relayAll, wsOpen, sessVars, linkVars, conts, net,
              emitted, left, sentVars>>

\* createOffer() / createAnswer() up to the await of
\* _waitForIceGatheringComplete: with this.peerConnection null the call
\* throws and the promise is rejected; with gathering complete the wait is
\* over at once; else the timer is set and the listener is added.
IceCreate(k, kind) ==
  /\ ice[k].phase \in {"idle", "fulfilled", "rejected"} /\ ice[k].calls < MaxIceCalls
  /\ LET gathering == IF ice[k].gathering = "new" THEN "gathering" ELSE ice[k].gathering IN
     ice' = [ice EXCEPT ![k] =
            IF ~ice[k].pc
            THEN [ice[k] EXCEPT !.op = kind, !.phase = "rejected", !.calls = @ + 1]
            ELSE IF gathering = "complete"
            THEN [ice[k] EXCEPT !.op = kind, !.phase = "fulfilled", !.calls = @ + 1]
            ELSE [ice[k] EXCEPT !.op = kind, !.phase = "waiting", !.calls = @ + 1,
                             !.gathering = gathering,
                             !.settled = FALSE, !.timer = TRUE, !.listener = TRUE,
                             !.resolved = 0]]
  /\ IceFrame

\* The connection finishes gathering and fires icegatheringstatechange:
\* onStateChange, when it is still listening.
IceGatheringComplete(k) ==
  /\ ice[k].pc /\ ice[k].gathering = "gathering"
  /\ ice' = [ice EXCEPT ![k] =
            IF ice[k].listener /\ ~ice[k].settled
            THEN [ice[k] EXCEPT !.gathering = "complete", !.settled = TRUE, !.timer = FALSE,
                             !.listener = FALSE, !.resolved = @ + 1, !.phase = "fulfilled"]
            ELSE [ice[k] EXCEPT !.gathering = "complete"]]
  /\ IceFrame

\* The timer of the wait fires: settled is set, then
\* this.peerConnection.removeEventListener throws when close() has made
\* this.peerConnection null, and resolve is not reached.
IceTimeout(k) ==
  /\ ice[k].timer
  /\ ice' = [ice EXCEPT ![k] =
            IF ice[k].settled THEN [ice[k] EXCEPT !.timer = FALSE]
            ELSE IF ~ice[k].pc
            THEN [ice[k] EXCEPT !.timer = FALSE, !.settled = TRUE, !.threw = TRUE]
            ELSE [ice[k] EXCEPT !.timer = FALSE, !.settled = TRUE, !.listener = FALSE,
                             !.resolved = @ + 1, !.phase = "fulfilled"]]
  /\ IceFrame

\* close(): the connection is closed and this.peerConnection set to null; a
\* closed connection fires no further event.
IceDoClose(m) ==
  IF m.pc THEN [m EXCEPT !.pc = FALSE, !.gathering = "closed", !.conn = "closed"] ELSE m

IceClose(k) ==
  /\ ice' = [ice EXCEPT ![k] = IceDoClose(ice[k])]
  /\ IceFrame

\* getConnectionState() and isActive()
GetConnectionState(m) == IF m.pc THEN m.conn ELSE "closed"

IsActive(m) == m.pc /\ m.conn \in {"connected", "connecting"}

\* The connection changes its connectionState and fires connectionstatechange:
\* the handler reports the state and closes the manager when it is "failed".
\* A closed connection fires no event.
IceConnectionStateChange(k, state) ==
  /\ ice[k].pc /\ state # ice[k].conn
  /\ ice' = [ice EXCEPT ![k] =
              IF state = "failed" THEN IceDoClose([ice[k] EXCEPT !.conn = state])
              ELSE [ice[k] EXCEPT !.conn = state]]
  /\ IceFrame

InitIce ==
  /\ InitManagers /\ wsOpen = [p \in Users |-> TRUE]
  /\ codec = CodecIdle /\ broker = BrokerIdle("peerjs") /\ twin = TwinIdle /\ pj = PjIdle
  /\ room = {} /\ relayAll = TRUE /\ left = Budget(0, 0)
  /\ ice = IceIdle
  /\ wsm = WsmIdle /\ compact = CompactIdle

NextIce ==
  \/ \E k \in IceLinks : \E kind \in {"offer", "answer"} : IceCreate(k, kind)
  \/ \E k \in IceLinks : IceGatheringComplete(k)
  \/ \E k \in IceLinks : IceTimeout(k)
  \/ \E k \in IceLinks : IceClose(k)
  \/ \E k \in IceLinks :
       \E state \in {"connecting", "connected", "disconnected", "failed"} :
         IceConnectionStateChange(k, state)

\* Timers fire.
SpecIce == InitIce /\ [][NextIce]_vars /\ \A k \in IceLinks : WF_vars(IceTimeout(k))

----------------------------------------------------------------------------
(* WebSocketManager: connect, the listeners of its sockets, rejoin,           *)
(* disconnect, pauseAutoReconnect and resumeAutoReconnect.                    *)

WsmFrame ==
  UNCHANGED <<codec, broker, twin, pj, ice, compact, room, relayAll, wsOpen, sessVars, linkVars, conts,
              net, emitted, left, sentVars>>

WsmCreated(w) == Cardinality({i \in 1..MaxSocks : w.socks[i].st # "none"})

WsmLive(w) == {i \in 1..MaxSocks : w.socks[i].st \in {"connecting", "open"}}

\* The body of connect(roomname, username): a new WebSocket replaces this.ws.
WsmDoConnect(w) ==
  LET n == WsmCreated(w) + 1 IN
  [w EXCEPT !.rejoined = FALSE, !.shouldReconnect = TRUE, !.fresh = TRUE, !.ws = n,
            !.socks[n] = [st |-> "connecting", closeDue |-> FALSE, rejoins |-> 0]]

\* rejoin(), called by a listener of socket i: it connects at once when the
\* reconnect delay has passed since the last connect, and waits otherwise.
WsmDoRejoin(w, i) ==
  IF w.rejoined THEN w
  ELSE LET r == [w EXCEPT !.rejoined = TRUE, !.ws = 0, !.socks[i].rejoins = @ + 1] IN
       IF w.fresh THEN [r EXCEPT !.timers = @ + 1] ELSE WsmDoConnect(r)

\* What a close or error listener of socket i does after its callback.
WsmListener(w, i) ==
  IF w.shouldReconnect THEN WsmDoRejoin(w, i) ELSE w

\* The listener can run within the sockets the model provides.
WsmInBound(w) ==
  w.rejoined \/ ~w.shouldReconnect \/ w.fresh \/ WsmCreated(w) < MaxSocks

\* The application calls connect() on a manager that holds no socket and has
\* no reconnection waiting.
WsmConnect ==
  /\ wsm.ws = 0 /\ wsm.timers = 0 /\ WsmCreated(wsm) < MaxSocks
  /\ wsm' = WsmDoConnect(wsm)
  /\ WsmFrame

\* Socket i is connected: its readyState becomes OPEN.
WsmOpen(i) ==
  /\ wsm.socks[i].st = "connecting"
  /\ wsm' = [wsm EXCEPT !.socks[i].st = "open"]
  /\ WsmFrame

\* Socket i fails: it is closed, and its error event and then its close event
\* fire in the same task, so the error listener and the close listener run one
\* after the other.
WsmError(i) ==
  /\ wsm.socks[i].st \in {"connecting", "open"}
  /\ WsmInBound(wsm)
  /\ wsm' = WsmListener(WsmListener([wsm EXCEPT !.socks[i].st = "closed"], i), i)
  /\ WsmFrame

\* The server or the network closes socket i without an error: its close event
\* fires.
WsmDrop(i) ==
  /\ wsm.socks[i].st \in {"connecting", "open"}
  /\ WsmInBound(wsm)
  /\ wsm' = WsmListener([wsm EXCEPT !.socks[i].st = "closed"], i)
  /\ WsmFrame

\* The close event of a socket i that disconnect() closed fires.
WsmCloseEvent(i) ==
  /\ wsm.socks[i].closeDue
  /\ WsmInBound(wsm)
  /\ wsm' = WsmListener([wsm EXCEPT !.socks[i].st = "closed", !.socks[i].closeDue = FALSE], i)
  /\ WsmFrame

\* reconnectDelay has passed since the last connect.
WsmDelayPasses ==
  /\ wsm.fresh
  /\ wsm' = [wsm EXCEPT !.fresh = FALSE]
  /\ WsmFrame

\* The delay of a waiting rejoin() has passed: it calls connect().
WsmTimer ==
  /\ wsm.timers > 0 /\ WsmCreated(wsm) < MaxSocks
  /\ wsm' = WsmDoConnect([wsm EXCEPT !.timers = @ - 1])
  /\ WsmFrame

\* disconnect()
WsmDisconnect ==
  /\ wsm.ws # 0
  /\ wsm' = [wsm EXCEPT !.ws = 0,
                        !.socks[wsm.ws] =
                           IF @.st \in {"connecting", "open"}
                           THEN [@ EXCEPT !.st = "closing", !.closeDue = TRUE] ELSE @]
  /\ WsmFrame

\* pauseAutoReconnect() and resumeAutoReconnect()
WsmSetReconnect(on) ==
  /\ wsm.shouldReconnect # on
  /\ wsm' = [wsm EXCEPT !.shouldReconnect = on]
  /\ WsmFrame

InitWsm ==
  /\ InitManagers /\ wsOpen = [p \in Users |-> TRUE]
  /\ codec = CodecIdle /\ broker = BrokerIdle("peerjs") /\ twin = TwinIdle /\ pj = PjIdle
  /\ ice = IceIdle /\ wsm = WsmIdle /\ compact = CompactIdle
  /\ room = {} /\ relayAll = TRUE /\ left = Budget(0, 0)

NextWsm ==
  \/ WsmConnect
  \/ \E i \in 1..MaxSocks : WsmOpen(i)
  \/ \E i \in 1..MaxSocks : WsmError(i)
  \/ \E i \in 1..MaxSocks : WsmDrop(i)
  \/ \E i \in 1..MaxSocks : WsmCloseEvent(i)
  \/ WsmDelayPasses
  \/ WsmTimer
  \/ WsmDisconnect
  \/ \E on \in BOOLEAN : WsmSetReconnect(on)

SpecWsm == InitWsm /\ [][NextWsm]_vars

----------------------------------------------------------------------------
(* WebRTCManager._compactDescription (src/webrtc-manager.js 223-236) *)

\* An sdp text is a sequence of tokens: the carriage return, the line feed,
\* the text "a=candidate:" and any other text.
MaxSdpLen == 7
MaxKeep == 2

SdpTokens == {"\r", "\n", "a=candidate:", "v"}

SdpTexts == UNION {[1..n -> SdpTokens] : n \in 0..MaxSdpLen}

CompactFrame ==
  UNCHANGED <<codec, broker, twin, pj, ice, wsm, room, relayAll, wsOpen, sessVars, linkVars, conts,
              net, emitted, left, sentVars>>

\* sdp.split('\r\n') from position i on, cur being the line read so far
RECURSIVE SplitFrom(_, _, _)
SplitFrom(sdp, i, cur) ==
  IF i > Len(sdp) THEN <<cur>>
  ELSE IF i < Len(sdp) /\ sdp[i] = "\r" /\ sdp[i + 1] = "\n"
       THEN <<cur>> \o SplitFrom(sdp, i + 2, <<>>)
       ELSE SplitFrom(sdp, i + 1, Append(cur, sdp[i]))

Split(sdp) == SplitFrom(sdp, 1, <<>>)

\* lines.join('\r\n')
RECURSIVE Join(_)
Join(lines) ==
  IF lines = <<>> THEN <<>>
  ELSE IF Len(lines) = 1 THEN lines[1]
       ELSE lines[1] \o <<"\r", "\n">> \o Join(Tail(lines))

\* line.startsWith('a=candidate:')
IsCandidateLine(line) == Len(line) >= 1 /\ line[1] = "a=candidate:"

KeepCandidateBelow(candidateCount, maxCandidates) == candidateCount < maxCandidates

\* return candidateCount <= this.maxCandidates
KeepCandidate(candidateCount, maxCandidates) == candidateCount <= maxCandidates

\* lines.filter(...) with its counter candidateCount
RECURSIVE FilterLines(_, _, _)
FilterLines(lines, candidateCount, maxCandidates) ==
  IF lines = <<>> THEN <<>>
  ELSE IF IsCandidateLine(Head(lines))
       THEN (IF KeepCandidate(candidateCount + 1, maxCandidates) THEN <<Head(lines)>> ELSE <<>>)
            \o FilterLines(Tail(lines), candidateCount + 1, maxCandidates)
       ELSE <<Head(lines)>> \o FilterLines(Tail(lines), candidateCount, maxCandidates)

\* if (!desc || !desc.sdp || this.maxCandidates < 0) return desc
CompactReturnSame ==
  /\ compact.phase = "called"
  /\ compact.desc.sdp = <<>> \/ compact.maxCandidates < 0
  /\ compact' = [compact EXCEPT !.phase = "returned", !.result = compact.desc]
  /\ CompactFrame

CompactSplit ==
  /\ compact.phase = "called"
  /\ ~(compact.desc.sdp = <<>> \/ compact.maxCandidates < 0)
  /\ compact' = [compact EXCEPT !.phase = "split", !.lines = Split(compact.desc.sdp)]
  /\ CompactFrame

CompactFilter ==
  /\ compact.phase = "split"
  /\ compact' = [compact EXCEPT !.phase = "filtered",
                                 !.lines = FilterLines(@, 0, compact.maxCandidates)]
  /\ CompactFrame

\* return { type: desc.type, sdp }
CompactJoin ==
  /\ compact.phase = "filtered"
  /\ compact' = [compact EXCEPT !.phase = "returned",
                                 !.result = [type |-> compact.desc.type, sdp |-> Join(compact.lines)]]
  /\ CompactFrame

InitCompact ==
  /\ InitManagers /\ wsOpen = [p \in Users |-> TRUE]
  /\ codec = CodecIdle /\ broker = BrokerIdle("peerjs") /\ twin = TwinIdle /\ pj = PjIdle
  /\ ice = IceIdle /\ wsm = WsmIdle
  /\ room = {} /\ relayAll = TRUE /\ left = Budget(0, 0)
  /\ \E type \in {"offer", "answer"}, sdp \in SdpTexts, maxCandidates \in -1..MaxKeep :
       compact = [CompactIdle EXCEPT !.phase = "called",
                                     !.desc = [type |-> type, sdp |-> sdp],
                                     !.maxCandidates = maxCandidates]

NextCompact == CompactReturnSame \/ CompactSplit \/ CompactFilter \/ CompactJoin

SpecCompact == InitCompact /\ [][NextCompact]_vars

----------------------------------------------------------------------------
(* Properties *)

\* The connection objects of p for u that are not closed.
OpenPcs(p, u) == {g \in Gens : PcOpen(pcs[p][u][g])}

\* p's link to u is in OFFERING: its own offer is set and no answer came.
Offering(p, u) == HasPeer(p, u) /\ PeerPc(p, u).sig = "have-local-offer"

\* p's link to u has both descriptions applied.
Connected(p, u) ==
  /\ HasPeer(p, u)
  /\ PeerPc(p, u).sig = "stable" /\ PeerPc(p, u).local /\ PeerPc(p, u).remote # NoPc

\* The links of p and u are connected to each other.
MutualConnected(p, u) ==
  /\ Connected(p, u) /\ Connected(u, p)
  /\ PeerPc(p, u).remote = peers[u][p]
  /\ PeerPc(u, p).remote = peers[p][u]

\* No message is in flight, no continuation is pending, no join is pending.
Quiescent ==
  \A p, u \in Users : net[p][u] = <<>> /\ conts[p][u] = <<>> /\ joining[p] = 0

IsDeparture(m) == m.type = "presence" /\ ~m.inVoice

\* C1: a participant holds at most one open connection object per remote user,
\* and it is the one in its peers map; a request to create a link for a user
\* that has one creates no second object.
C1_AtMostOneLink ==
  \A p, u \in Users :
    /\ Cardinality(OpenPcs(p, u)) <= 1
    /\ OpenPcs(p, u) = IF HasPeer(p, u) THEN {peers[p][u]} ELSE {}

\* An offer of u reached p while p held the link it had created itself towards
\* u: the link was reused (the only connection object p ever made for u).
C1_Witness ==
  \E p, u \in Users :
    /\ HasPeer(p, u) /\ Created(p, u) = 1 /\ nOffers[p][u] = 1
    /\ PeerPc(p, u).sig = "have-remote-offer"

\* C2: a participant that is not joined holds no link and no local stream that
\* is referenced or still capturing.
C2_NotJoinedHoldsNothing ==
  \A p \in Users :
    ~inVoice[p] =>
      /\ \A u \in Users : ~HasPeer(p, u)
      /\ ~localStream[p]
      /\ liveStreams[p] = 0

\* C3: once every participant of the room has joined and every message and
\* continuation has been processed, every pair of participants holds one
\* connected link to each other.
C3_FullMesh ==
  (Quiescent /\ \A p \in room : inVoice[p]) =>
    \A p, u \in room : p # u => MutualConnected(p, u)

\* C4: when "b" joins after "a" has joined and announced it, "a" sends one
\* offer and no answer, "b" sends one answer and no offer, and once both are
\* joined they end connected to each other for good.
C4_OneOfferOneAnswer ==
  /\ nOffers["a"]["b"] <= 1 /\ nAnswers["a"]["b"] = 0
  /\ nOffers["b"]["a"] = 0 /\ nAnswers["b"]["a"] <= 1

C4_Settled ==
  /\ MutualConnected("a", "b")
  /\ nOffers["a"]["b"] = 1 /\ nAnswers["b"]["a"] = 1

C5_GlareConverges ==
  \A p, u \in Users :
    ({p, u} \in glared /\ Quiescent) => MutualConnected(p, u)

\* C6: on an offer of u received while p's own offer to u is outstanding, p
\* with the smaller id keeps its link and its offer and prepares no answer; p
\* with the larger id drops its offer and goes on to answer.
C6_TieBreak ==
  [][\A u, p \in Users :
       (/\ net[u][p] # <<>>
        /\ Head(net[u][p]).type = "offer" /\ Head(net[u][p]).to = p
        /\ Offering(p, u)
        /\ HandleChatMessage(u, p)) =>
         IF LexLess(p, u)
         THEN peers'[p][u] = peers[p][u] /\ pcs'[p][u] = pcs[p][u]
              /\ conts'[p][u] = conts[p][u]
         ELSE /\ peers'[p][u] = peers[p][u]
              /\ pcs'[p][u][peers[p][u]].sig = "have-remote-offer"
              /\ conts'[p][u] = Append(conts[p][u], [kind |-> "answer", gen |-> peers[p][u]])
    ]_vars

\* C7: no candidate received for a live link is lost: none is rejected by the
\* connection for want of a remote description.
C7_NoCandidateLost == \A p, u \in Users : lostCands[p][u] = {}

\* C8: leaveVoiceChat leaves the participant not joined, with no link, no remote
\* stream and no local stream, whatever the state before; when the participant
\* was not joined it changes nothing and publishes and sends nothing.
C8_LeaveReleasesAll ==
  [][\A p \in Users :
       LeaveVoiceChat(p) =>
         /\ ~inVoice'[p] /\ ~localStream'[p] /\ liveStreams'[p] = 0
         /\ \A u \in Users : peers'[p][u] = NoPc /\ ~remoteStreams'[p][u]
         /\ \A u \in Users : OpenPcs(p, u)' = {}
         /\ ~inVoice[p] => (emitted' = <<>> /\ UNCHANGED <<sessVars, linkVars, net>>)
    ]_vars

\* C9: a departure announcement of u removes p's link to u and no other link;
\* when p has no link to u it changes nothing and publishes no event.
C9_DepartureIdempotent ==
  [][\A u, p \in Users :
       (/\ net[u][p] # <<>>
        /\ IsDeparture(Head(net[u][p]))
        /\ HandleChatMessage(u, p)) =>
         /\ peers'[p][u] = NoPc
         /\ \A w \in Users \ {u} :
              /\ peers'[p][w] = peers[p][w] /\ pcs'[p][w] = pcs[p][w]
              /\ remoteStreams'[p][w] = remoteStreams[p][w]
         /\ ~HasPeer(p, u) =>
              (emitted' = <<>> /\ UNCHANGED <<sessVars, linkVars, conts>>)
    ]_vars

\* C10: toggleMute changes no link and sends no offer or answer, and neither
\* does the processing of the announcement it broadcasts.
C10_MuteFrame ==
  [][/\ \A p \in Users :
          ToggleMute(p) => UNCHANGED <<linkVars, conts, sentVars>>
     /\ \A s, p \in Users :
          (/\ net[s][p] # <<>>
           /\ Head(net[s][p]).why = "mute"
           /\ HandleChatMessage(s, p)) => UNCHANGED <<peers, pcs, conts>>
    ]_vars

\* C11: a presence envelope built by broadcastVoiceState and taken apart by
\* handleChatMessage has the user name, inVoice and muted it was built with,
\* and in the peer-id strategy the same peer id.
C11_RoundTrip ==
  codec.phase = "received" =>
    /\ codec.out.ok
    /\ codec.out.env.username = codec.env.username
    /\ codec.out.env.inVoice = codec.env.inVoice
    /\ codec.out.env.muted = codec.env.muted
    /\ codec.strategy = "peerjs" => codec.out.env.peerId = codec.env.peerId

\* An envelope whose user name holds a quote and a bracket came through.
C11_Witness ==
  /\ codec.phase = "received"
  /\ codec.env.username = JStr(<<"\"", "]">>)
  /\ codec.out.ok /\ codec.out.env.username = codec.env.username

\* C12: a joinVoiceChat whose getUserMedia is refused publishes voice:error,
\* announces nothing, and leaves the joined flag, the local stream, the links
\* and the user and room identity as they were when it was called.
C12_DeniedJoinRetainsNothing ==
  [][\A p \in Users :
       (joining[p] = 1 /\ JoinMediaDenied(p)) =>
         /\ emitted' = <<Ev("voice:error", p)>>
         /\ UNCHANGED <<inVoice, localStream, liveStreams, linkVars, net>>
         /\ username'[p] = nameAtCall[p]
    ]_vars

\* C13: joinVoiceChat completes with inVoice set only when the signaling
\* transport, here the chat websocket, is connected.
C13_JoinNeedsTransport ==
  [][\A p \in Users :
       (JoinMediaGranted(p) /\ inVoice'[p]) => wsOpen[p]
    ]_vars

\* C14: the manager creates a Peer or a socket only as part of a joinVoiceChat
\* call, one per call: it never connects again on its own after an error.
C14_NoAutomaticRetry == broker.attempts <= broker.joins

\* C15: a continuation that runs after its connection was closed, by
\* leaveVoiceChat or by removePeer, sends no offer and no answer, and that
\* connection is not in the peers map afterwards.
C15_StaleResultDiscarded ==
  [][\A p, u \in Users :
       (/\ conts[p][u] # <<>>
        /\ ~PcOpen(pcs[p][u][Head(conts[p][u]).gen])
        /\ Continue(p, u)) =>
         /\ net' = net /\ UNCHANGED sentVars
         /\ peers'[p][u] # Head(conts[p][u]).gen
         /\ ~PcOpen(pcs'[p][u][Head(conts[p][u]).gen])
    ]_vars

\* A connection was created and closed before its offer or answer was ready,
\* its continuation has run, and nothing was sent for it.
C15_Witness ==
  \E p, u \in Users :
    /\ Created(p, u) = 1 /\ pcs[p][u][1].sig = "closed"
    /\ conts[p][u] = <<>>
    /\ nOffers[p][u] = 0 /\ nAnswers[p][u] = 0

\* C16: when the connection of p's link to u reports failed, p's link to u
\* and its remote stream are removed, every session stays as joined as it was,
\* and every other link and remote stream is unchanged.
C16_FailureRemovesOneLink ==
  [][\A p, u \in Users :
       OnConnectionFailed(p, u) =>
         /\ ~HasPeer(p, u)' /\ ~remoteStreams'[p][u]
         /\ \A g \in Gens : ~PcOpen(pcs'[p][u][g])
         /\ UNCHANGED <<inVoice, localStream, liveStreams>>
         /\ \A q, v \in Users :
              <<q, v>> # <<p, u>> =>
                /\ peers'[q][v] = peers[q][v]
                /\ pcs'[q][v] = pcs[q][v]
                /\ remoteStreams'[q][v] = remoteStreams[q][v]
    ]_vars

\* A connection of p failed: p has no link to u and no stream of u any more,
\* and is still joined and connected to v, whose stream it still has.
C16_Witness ==
  /\ left.fails < MaxFails
  /\ \E p, u, v \in Users :
       /\ u # v /\ inVoice[p]
       /\ Created(p, u) > 0 /\ ~HasPeer(p, u) /\ ~remoteStreams[p][u]
       /\ Connected(p, v) /\ remoteStreams[p][v]

\* C17: whenever a participant stops holding the remote stream of u, whatever
\* closed the link (remote leave, connection failure, local leave), the same
\* step publishes voice:stream-removed for u exactly once.
C17_StreamRemovedOnClose ==
  [][\A p, u \in Users :
       (remoteStreams[p][u] /\ ~remoteStreams'[p][u]) =>
         Cardinality({i \in DOMAIN emitted' :
                        emitted'[i] = Ev("voice:stream-removed", u)}) = 1
    ]_vars

\* C18: processing the second copy of an envelope leaves the links, their
\* states and the remote streams unchanged, schedules nothing, publishes no
\* event and sends no message.
C18_DuplicateDropped ==
  [][\A s, p \in Users :
       (/\ net[s][p] # <<>>
        /\ Head(net[s][p]).why = "duplicate"
        /\ HandleChatMessage(s, p)) =>
         /\ UNCHANGED <<linkVars, conts, sentVars>>
         /\ emitted' = <<>>
         /\ net' = Pop(net, s, p)
    ]_vars

\* C19: a chat message that is neither a presence envelope of another user nor
\* a signaling envelope addressed to the receiver (an untagged message, a
\* signaling envelope for a third user, the receiver's own presence envelope)
\* is consumed without changing any voice state, publishing an event or
\* sending a message.
C19_OtherTrafficIgnored ==
  [][\A s, p \in Users :
       (/\ net[s][p] # <<>>
        /\ LET m == Head(net[s][p]) IN
             \/ m.type = "chat"
             \/ m.type \in SigTypes /\ m.to # p
             \/ m.type = "presence" /\ m.from = p
        /\ HandleChatMessage(s, p)) =>
         /\ UNCHANGED <<sessVars, linkVars, conts, sentVars>>
         /\ emitted' = <<>>
         /\ net' = Pop(net, s, p)
    ]_vars

\* A joined participant has received and consumed a message that was not meant
\* for its manager, and an offer addressed to it is still to be processed.
C19_Witness ==
  /\ left.chats < MaxChats
  /\ \A s, q \in Users : \A i \in DOMAIN net[s][q] :
       net[s][q][i].why \notin {"chat", "echo"} /\ net[s][q][i].to \in {"*", q}
  /\ \E s, p \in Users : inVoice[p] /\ OfferInFlight(s, p)

\* C20: an answer that arrived for a link that was not in OFFERING does not
\* change the state of that link: when the rejection of its
\* setRemoteDescription is handled, the link is still in the peers map and its
\* connection is as it was.
C20_StrayAnswerKeepsLink ==
  [][\A p, u \in Users :
       (/\ conts[p][u] # <<>>
        /\ Head(conts[p][u]).kind = "catchAnswer"
        /\ Head(conts[p][u]).gen = peers[p][u]
        /\ Continue(p, u)) =>
         /\ peers'[p][u] = peers[p][u]
         /\ pcs'[p][u] = pcs[p][u]
    ]_vars

\* C21: a joined participant that receives a joined announcement of a user it
\* has no link to creates one link and, when the offer of that link is ready,
\* sends it; a participant that is not joined creates nothing; a participant
\* that receives an offer of a user it has no link to creates one link and,
\* when the answer is ready, sends it.
C21_PresenceOfferAnswer ==
  [][/\ \A u, p \in Users :
          (/\ net[u][p] # <<>>
           /\ Head(net[u][p]).type = "presence" /\ Head(net[u][p]).inVoice /\ u # p
           /\ ~HasPeer(p, u)
           /\ HandleChatMessage(u, p)) =>
            IF inVoice[p]
            THEN /\ HasPeer(p, u)' /\ Created(p, u)' = Created(p, u) + 1
                 /\ conts'[p][u] =
                      Append(conts[p][u], [kind |-> "offer", gen |-> peers'[p][u]])
            ELSE UNCHANGED <<linkVars, conts, sentVars>>
     /\ \A u, p \in Users :
          (/\ net[u][p] # <<>>
           /\ Head(net[u][p]).type = "offer" /\ Head(net[u][p]).to = username[p]
           /\ ~HasPeer(p, u)
           /\ HandleChatMessage(u, p)) =>
            /\ HasPeer(p, u)' /\ Created(p, u)' = Created(p, u) + 1
            /\ conts'[p][u] =
                 Append(conts[p][u], [kind |-> "answer", gen |-> peers'[p][u]])
     /\ \A p, u \in Users :
          (/\ conts[p][u] # <<>>
           /\ Head(conts[p][u]).gen = peers[p][u]
           /\ Continue(p, u)) =>
            /\ Head(conts[p][u]).kind = "offer" => nOffers'[p][u] = nOffers[p][u] + 1
            /\ Head(conts[p][u]).kind = "answer" => nAnswers'[p][u] = nAnswers[p][u] + 1
    ]_vars

\* C22: given the same events, the manager of the in-band strategy and the
\* manager of the relay strategy, while joined, hold the same links, in the
\* same states, and the same remote streams, and publish the same events at
\* every step.
C22_SameSemantics ==
  (twin.simple.inVoice /\ twin.socketio.inVoice) =>
    /\ twin.simple.peers = twin.socketio.peers
    /\ twin.simple.remoteStreams = twin.socketio.remoteStreams
    /\ twin.simple.emitted = twin.socketio.emitted

\* C23: in the peer-id strategy, once the call a joined participant p placed
\* to a participant u that joined later was answered and the streams reached
\* both ends, p holds a call and a stream for u and u holds a call and a
\* stream for p.
C23_BothEndsRecordCall ==
  \A p \in PjUsers :
    LET u == PjOther(p)
        c == pj.call[p]
    IN (/\ pj.mgr[p].inVoice /\ pj.mgr[u].inVoice
        /\ c.st = "answered" /\ c.callerGot /\ c.calleeGot
        /\ c.fromId = pj.mgr[p].peerId /\ c.toId = pj.mgr[u].peerId
        /\ c.fromId < c.toId) =>
         /\ pj.mgr[p].calls[u] = "out" /\ pj.mgr[p].remoteStreams[u]
         /\ pj.mgr[u].calls[p] = "in" /\ pj.mgr[u].remoteStreams[p]

\* C24: an offer or an answer that is ready while the chat websocket is closed
\* is not sent, then or later, and its link stays in the peers map with its
\* local description set; such a link leaves the map only by a connection
\* failure, a departure announcement of the remote user or leaveVoiceChat.
C24_UnsentLinkStays ==
  [][/\ \A p, u \in Users :
          (/\ conts[p][u] # <<>> /\ ~wsOpen[p]
           /\ Head(conts[p][u]).gen = peers[p][u]
           /\ Head(conts[p][u]).kind \in {"offer", "answer"}
           /\ PeerPc(p, u).sig = (IF Head(conts[p][u]).kind = "offer"
                                  THEN "stable" ELSE "have-remote-offer")
           /\ Continue(p, u)) =>
            /\ net' = net /\ UNCHANGED <<peers, sentVars>>
            /\ PeerPc(p, u)'.local /\ conts'[p][u] = Tail(conts[p][u])
     /\ \A p, u \in Users :
          (/\ HasPeer(p, u) /\ PeerPc(p, u).unsent
           /\ peers'[p][u] # peers[p][u]) =>
            \/ OnConnectionFailed(p, u)
            \/ LeaveVoiceChat(p)
            \/ /\ net[u][p] # <<>> /\ IsDeparture(Head(net[u][p]))
               /\ HandleChatMessage(u, p)
    ]_vars

\* C25: a joinVoiceChat that succeeds holds the acquired stream, has its
\* signaling transport connected, and sends one joined announcement to every
\* other member of the room; no joined announcement is sent by any other step
\* of a join.
C25_JoinAnnouncesOnce ==
  [][\A p \in Users :
       /\ JoinMediaGranted(p) =>
            /\ localStream'[p] /\ inVoice'[p] /\ wsOpen[p]
            /\ \A r \in room \ {p} :
                 net'[p][r] = Append(net[p][r], PresenceMsg(p, TRUE, isMuted[p], "join"))
       /\ (JoinVoiceChat(p) \/ JoinMediaDenied(p)) => net' = net
    ]_vars

\* C26: a createOffer or createAnswer that waits for ICE gathering settles:
\* the wait is resolved, once, by the end of gathering or by its timer, also
\* when close() is called while it is pending.
C26_GatheringWaitSettles ==
  \A k \in IceLinks :
    /\ [](ice[k].resolved <= 1)
    /\ (ice[k].phase = "waiting") ~> (ice[k].phase \in {"fulfilled", "rejected"})


\* C27: while a participant is joined, its muted flag agrees with its local
\* audio track (isMuted exactly when the track is disabled) and with the muted
\* value of every presence announcement it sends, across mute, leave and
\* re-join.
C27_MutedFlagAgrees ==
  /\ [](\A p \in Users : inVoice[p] /\ localStream[p] => (isMuted[p] <=> ~trackEnabled[p]))
  /\ [][\A p, r \in Users :
         (Len(net'[p][r]) > Len(net[p][r]) /\ net'[p][r][Len(net'[p][r])].type = "presence")
           => net'[p][r][Len(net'[p][r])].muted = isMuted'[p]]_vars


\* C28: a second joinVoiceChat made while the first awaits getUserMedia acquires
\* no second stream: every captured stream that was not stopped is the one
\* this.localStream refers to, and a join that completes for a participant
\* that is already joined sends no announcement.
C28_OverlappingJoinOneStream ==
  /\ [](\A p \in Users : liveStreams[p] = IF localStream[p] THEN 1 ELSE 0)
  /\ [][\A p \in Users : inVoice[p] /\ JoinMediaGranted(p) => net' = net]_vars


\* C29: when leaveVoiceChat was called while a joinVoiceChat was awaiting its
\* media, the participant is not joined and holds no stream once the join has
\* completed, and the completing join sends no announcement.
C29_LeaveCancelsPendingJoin ==
  [][\A p \in Users :
       (leftPending[p] /\ JoinMediaGranted(p))
         => ~inVoice'[p] /\ ~localStream'[p] /\ net' = net]_vars


\* C30: a continuation that belongs to a connection object to u that was
\* removed (its catch block running for the old object) leaves a newer link to
\* u alone: the entry of u in peers stays and its connection is not closed.
C30_StaleReportKeepsNewLink ==
  [][\A p, u \in Users :
       (/\ conts[p][u] # <<>>
        /\ HasPeer(p, u)
        /\ Head(conts[p][u]).gen # peers[p][u]
        /\ Continue(p, u))
         => /\ peers'[p][u] = peers[p][u]
            /\ PcOpen(pcs'[p][u][peers[p][u]])]_vars


C32_OpenCallsTracked ==
  \A p \in PjUsers :
    LET u == PjOther(p) IN
    /\ (pj.call[p].st \in {"ringing", "answered"} /\ pj.call[p].fromId = pj.mgr[p].peerId)
          => pj.mgr[p].calls[u] = "out"
    /\ (pj.call[u].st = "answered" /\ pj.call[u].calleeGot /\ pj.call[u].toId = pj.mgr[p].peerId)
          => pj.mgr[p].calls[u] = "in"


\* C33: the link to a remote user u changes only by envelopes u sent: handling
\* a chat message of another sender whose payload names u leaves the link, the
\* stream and the pending continuations a participant holds for u as they are.
C33_OnlySenderAffectsLink ==
  [][\A s, p \in Users :
       (/\ net[s][p] # <<>>
        /\ Head(net[s][p]).from # s
        /\ HandleChatMessage(s, p))
         => LET u == Head(net[s][p]).from IN
            /\ peers'[p][u] = peers[p][u]
            /\ pcs'[p][u] = pcs[p][u]
            /\ remoteStreams'[p][u] = remoteStreams[p][u]
            /\ conts'[p][u] = conts[p][u]]_vars


\* C34: WebSocketManager keeps at most one live socket: at most one socket is
\* open or connecting and it is the one this.ws refers to, and the close and
\* error events of one socket start at most one reconnection.
C34_OneLiveSocket ==
  /\ Cardinality(WsmLive(wsm)) <= 1
  /\ \A i \in WsmLive(wsm) : wsm.ws = i
  /\ \A i \in 1..MaxSocks : wsm.socks[i].rejoins <= 1


\* C35: WebRTCManager.close is idempotent and terminal: once closed,
\* getConnectionState is "closed" and isActive is false, a further close
\* changes nothing, and no callback of the manager that fires after the close
\* raises an error.
C35_CloseTerminal ==
  /\ [](\A k \in IceLinks :
          ~ice[k].pc => GetConnectionState(ice[k]) = "closed" /\ ~IsActive(ice[k]))
  /\ [][\A k \in IceLinks : ~ice[k].pc /\ IceClose(k) => ice'[k] = ice[k]]_vars
  /\ [](\A k \in IceLinks : ~ice[k].threw)


\* The candidate lines among the first i of lines
CandidatesUpTo(lines, i) == {j \in 1..i : IsCandidateLine(lines[j])}

\* The positions of the lines that stay: every line that is no candidate line,
\* and the candidate lines among the first maxCandidates of them.
KeptLines(lines, maxCandidates) ==
  {i \in 1..Len(lines) :
     IsCandidateLine(lines[i]) => Cardinality(CandidatesUpTo(lines, i)) <= maxCandidates}

\* The n-th smallest member of the set K of positions
NthOf(K, n) == CHOOSE i \in K : Cardinality({j \in K : j <= i}) = n

MinOf(x, y) == IF x <= y THEN x ELSE y

\* C36: for maxCandidates >= 0 the description returned by _compactDescription
\* has the type of its argument and its lines are the argument's lines, in
\* their order, without the candidate lines after the first maxCandidates:
\* of k candidate lines the first min(k, maxCandidates) stay and every other
\* line stays; for maxCandidates < 0 the argument is returned unchanged.
C36_CompactKeepsFirst ==
  compact.phase = "returned" =>
    LET lines == Split(compact.desc.sdp)
        out   == Split(compact.result.sdp)
        K     == KeptLines(lines, compact.maxCandidates)
        k     == Cardinality(CandidatesUpTo(lines, Len(lines)))
    IN  IF compact.maxCandidates < 0 THEN compact.result = compact.desc
        ELSE /\ compact.result.type = compact.desc.type
             /\ IF K = {} THEN compact.result.sdp = <<>>
                ELSE /\ Len(out) = Cardinality(K)
                     /\ \A n \in 1..Len(out) : out[n] = lines[NthOf(K, n)]
             /\ Cardinality(CandidatesUpTo(out, Len(out))) = MinOf(k, compact.maxCandidates)

\* A description with three lines, a candidate line, another line and a second
\* candidate line, has been compacted with maxCandidates = 1.
C36_Witness ==
  /\ compact.phase = "returned" /\ compact.maxCandidates = 1
  /\ LET lines == Split(compact.desc.sdp)
     IN  /\ Len(lines) = 3
         /\ IsCandidateLine(lines[1]) /\ ~IsCandidateLine(lines[2]) /\ IsCandidateLine(lines[3])
  /\ compact.result.sdp # compact.desc.sdp

====
